---------------------------- MODULE Spec2Model ----------------------------
(***************************************************************************)
(* A model of jsonschema.py (JSON Schema draft-03 / draft-04 validation).  *)
(*                                                                         *)
(* JSON values are the Python objects json.loads produces.  A value is a   *)
(* record [t, v] whose tag t is the Python class of the object:            *)
(*   NoneType, bool, int, float, str, list, dict.                          *)
(* A float carries its value in tenths (JFloat(15) is 1.5), a list carries  *)
(* a sequence of values, and a dict a sequence of <<key, value>> pairs in  *)
(* insertion order (the order iteritems walks).                            *)
(***************************************************************************)
EXTENDS Integers, Sequences, FiniteSets, TLC

(***************************************************************************)
(* Bounds of the model.                                                    *)
(***************************************************************************)
MaxCalls == 2

\* the frames the interpreter allows before it raises RecursionError, more
\* than any evaluation that ends by itself uses
MaxDepth == 30

(***************************************************************************)
(* Strings (Python str): character access and the few str methods the      *)
(* source calls.                                                           *)
(***************************************************************************)
CharAt(s, i) == SubSeq(s, i, i)

\* s.startswith(p)
StartsWith(s, p) == Len(s) >= Len(p) /\ SubSeq(s, 1, Len(p)) = p

\* s[i:] with i counted from 0, as Python slices
StrFrom(s, i) == IF i >= Len(s) THEN "" ELSE SubSeq(s, i + 1, Len(s))

\* the position (from 1) of the first occurrence of needle in s, 0 if none:
\* s.find(needle) + 1
StrFind(s, needle) ==
  LET hits == {i \in 1..(Len(s) - Len(needle) + 1) :
                  SubSeq(s, i, i + Len(needle) - 1) = needle}
  IN IF hits = {} THEN 0 ELSE CHOOSE i \in hits : \A j \in hits : i <= j

\* s.lstrip(c) for a one-character c
RECURSIVE LStrip(_, _)
LStrip(s, c) ==
  IF Len(s) > 0 /\ CharAt(s, 1) = c THEN LStrip(StrFrom(s, 1), c) ELSE s

\* s.replace(old, new)
RECURSIVE StrReplace(_, _, _)
StrReplace(s, old, new) ==
  LET p == StrFind(s, old)
  IN IF p = 0 THEN s
     ELSE SubSeq(s, 1, p - 1) \o new
            \o StrReplace(StrFrom(s, p - 1 + Len(old)), old, new)

\* s.split(sep): always at least one piece
RECURSIVE StrSplit(_, _)
StrSplit(s, sep) ==
  LET p == StrFind(s, sep)
  IN IF p = 0 THEN <<s>>
     ELSE <<SubSeq(s, 1, p - 1)>> \o StrSplit(StrFrom(s, p - 1 + Len(sep)), sep)

\* sep.join(parts)
RECURSIVE StrJoin(_, _)
StrJoin(parts, sep) ==
  IF Len(parts) = 0 THEN ""
  ELSE IF Len(parts) = 1 THEN parts[1]
  ELSE parts[1] \o sep \o StrJoin(Tail(parts), sep)

(***************************************************************************)
(* JSON values.                                                            *)
(***************************************************************************)
JNull == [t |-> "NoneType", v |-> "None"]
JBool(b) == [t |-> "bool", v |-> b]
JInt(i) == [t |-> "int", v |-> i]
JFloat(tenths) == [t |-> "float", v |-> tenths]
JStr(s) == [t |-> "str", v |-> s]
JList(items) == [t |-> "list", v |-> items]
JDict(pairs) == [t |-> "dict", v |-> pairs]


\* the keys of a dict, in iteration order
Keys(d) == [i \in 1..Len(d.v) |-> d.v[i][1]]
KeySet(d) == {d.v[i][1] : i \in 1..Len(d.v)}

\* key in d
HasKey(d, k) == k \in KeySet(d)

\* d[k], for a key d has
Get(d, k) == d.v[CHOOSE i \in 1..Len(d.v) : d.v[i][1] = k][2]

\* d.get(k, default)
GetOr(d, k, default) == IF HasKey(d, k) THEN Get(d, k) ELSE default

\* len(x) of a str, list or dict
PyLen(x) == Len(x.v)

\* the numeric value, in tenths, of a bool, int or float
IsNum(x) == x.t \in {"bool", "int", "float"}
Tenths(x) ==
  CASE x.t = "bool" -> (IF x.v THEN 10 ELSE 0)
    [] x.t = "int" -> 10 * x.v
    [] x.t = "float" -> x.v

\* Python's ==: numbers compare by value whatever their class (True == 1,
\* 1 == 1.0), lists elementwise, dicts as mappings.
RECURSIVE PyEq(_, _)
PyEq(a, b) ==
  IF IsNum(a) /\ IsNum(b) THEN Tenths(a) = Tenths(b)
  ELSE IF a.t # b.t THEN FALSE
  ELSE IF a.t = "list"
    THEN Len(a.v) = Len(b.v) /\ \A i \in 1..Len(a.v) : PyEq(a.v[i], b.v[i])
  ELSE IF a.t = "dict"
    THEN KeySet(a) = KeySet(b) /\ \A k \in KeySet(a) : PyEq(Get(a, k), Get(b, k))
  ELSE a.v = b.v

\* x in container, for a list container
PyIn(x, container) == \E i \in 1..Len(container.v) : PyEq(x, container.v[i])

\* bool(x): the truth value of an object
Truthy(x) ==
  CASE x.t = "NoneType" -> FALSE
    [] x.t = "bool" -> x.v
    [] x.t \in {"int", "float"} -> x.v # 0
    [] OTHER -> Len(x.v) > 0

(***************************************************************************)
(* The type predicate.                                                     *)
(***************************************************************************)
\* the classes an object of class c is an instance of (isinstance, issubclass)
Bases(c) ==
  CASE c = "bool" -> {"bool", "int", "Number"}
    [] c = "int" -> {"int", "Number"}
    [] c = "float" -> {"float", "Number"}
    [] OTHER -> {c}

DEFAULT_TYPES ==
  [array |-> {"list"}, boolean |-> {"bool"}, integer |-> {"int"},
   null |-> {"NoneType"}, number |-> {"Number"}, object |-> {"dict"},
   string |-> {"str"}]

TypeNames == DOMAIN DEFAULT_TYPES

\* type in self._types
KnownType(type) == type \in TypeNames

\* isinstance(instance, pytypes)
IsInstance(instance, pytypes) == Bases(instance.t) \cap pytypes # {}

is_type_nobool(instance, type) == IsInstance(instance, DEFAULT_TYPES[type])

\* ValidatorMixin.is_type, for a type the table knows
is_type(instance, type) ==
  LET pytypes == DEFAULT_TYPES[type]
      num == \E pytype \in pytypes : "Number" \in Bases(pytype)
  IN IF instance.t = "bool" /\ num /\ "bool" \notin pytypes
       THEN FALSE
       ELSE IsInstance(instance, pytypes)

(***************************************************************************)
(* URIs: urlparse.urljoin and urlparse.urldefrag of the standard library,  *)
(* on URIs without parameters and queries.                                 *)
(***************************************************************************)
UsesRelative == {"", "http", "https", "file", "ftp"}

\* url.split("#", 1): <<the URL before the fragment, the fragment>>
CutFragment(url) ==
  IF StrFind(url, "#") = 0 THEN <<url, "">>
  ELSE <<SubSeq(url, 1, StrFind(url, "#") - 1), StrFrom(url, StrFind(url, "#"))>>

\* <<scheme, rest>>: the scheme is what precedes the first ":", if that is
\* not the first character and no "/" precedes it
CutScheme(url, default_scheme) ==
  IF /\ StrFind(url, ":") > 1
     /\ StrFind(SubSeq(url, 1, StrFind(url, ":") - 1), "/") = 0
    THEN <<SubSeq(url, 1, StrFind(url, ":") - 1), StrFrom(url, StrFind(url, ":"))>>
    ELSE <<default_scheme, url>>

\* <<netloc, path>>: the netloc is what follows "//", up to the next "/"
CutNetloc(rest) ==
  IF ~StartsWith(rest, "//") THEN <<"", rest>>
  ELSE IF StrFind(StrFrom(rest, 2), "/") = 0 THEN <<StrFrom(rest, 2), "">>
  ELSE <<SubSeq(rest, 3, StrFind(StrFrom(rest, 2), "/") + 1),
         StrFrom(rest, StrFind(StrFrom(rest, 2), "/") + 1)>>

\* urlsplit(url, scheme): [scheme, netloc, path, fragment]
UrlSplit(url, default_scheme) ==
  [scheme |-> CutScheme(CutFragment(url)[1], default_scheme)[1],
   netloc |-> CutNetloc(CutScheme(CutFragment(url)[1], default_scheme)[2])[1],
   path |-> CutNetloc(CutScheme(CutFragment(url)[1], default_scheme)[2])[2],
   fragment |-> CutFragment(url)[2]]

\* urlunsplit
UrlUnsplit(scheme, netloc, path, fragment) ==
  LET withnet ==
        IF netloc # ""
          THEN "//" \o netloc
                 \o (IF path # "" /\ CharAt(path, 1) # "/" THEN "/" ELSE "") \o path
          ELSE path
      withscheme == IF scheme # "" THEN scheme \o ":" \o withnet ELSE withnet
  IN IF fragment # "" THEN withscheme \o "#" \o fragment ELSE withscheme

\* urlparse.urldefrag(url): <<the URL without its fragment, the fragment>>
urldefrag(url) ==
  IF StrFind(url, "#") = 0 THEN <<url, "">>
  ELSE <<UrlUnsplit(UrlSplit(url, "").scheme, UrlSplit(url, "").netloc,
                    UrlSplit(url, "").path, ""),
         UrlSplit(url, "").fragment>>

\* the segments between the first and the last one that are not empty
FilterInner(segs) ==
  IF Len(segs) <= 2 THEN segs
  ELSE <<segs[1]>>
         \o SelectSeq(SubSeq(segs, 2, Len(segs) - 1), LAMBDA x : x # "")
         \o <<segs[Len(segs)]>>

\* the path segments with "." dropped and ".." applied
RECURSIVE ResolveDots(_, _)
ResolveDots(segs, acc) ==
  IF Len(segs) = 0 THEN acc
  ELSE IF Head(segs) = ".."
    THEN ResolveDots(Tail(segs),
                     IF Len(acc) = 0 THEN acc ELSE SubSeq(acc, 1, Len(acc) - 1))
  ELSE IF Head(segs) = "." THEN ResolveDots(Tail(segs), acc)
  ELSE ResolveDots(Tail(segs), Append(acc, Head(segs)))

\* the segments of the joined path: those of the base without its last
\* one, then those of the relative path
MergePath(bsplit, path) ==
  FilterInner(IF CharAt(path, 1) = "/" THEN StrSplit(path, "/")
              ELSE (IF bsplit[Len(bsplit)] # ""
                      THEN SubSeq(bsplit, 1, Len(bsplit) - 1)
                      ELSE bsplit) \o StrSplit(path, "/"))

\* the joined path, "/" if it is empty
JoinedPath(segments) ==
  LET joined ==
        StrJoin(ResolveDots(segments, <<>>)
                  \o (IF segments[Len(segments)] \in {".", ".."} THEN <<"">> ELSE <<>>),
                "/")
  IN IF joined = "" THEN "/" ELSE joined

JoinSplit(b, u, url) ==
  IF u.scheme # b.scheme \/ u.scheme \notin UsesRelative THEN url
  ELSE IF u.netloc # "" THEN UrlUnsplit(u.scheme, u.netloc, u.path, u.fragment)
  ELSE IF u.path = "" THEN UrlUnsplit(u.scheme, b.netloc, b.path, u.fragment)
  ELSE UrlUnsplit(u.scheme, b.netloc,
                  JoinedPath(MergePath(StrSplit(b.path, "/"), u.path)),
                  u.fragment)

JoinBase(b, url) == JoinSplit(b, UrlSplit(url, b.scheme), url)

\* urlparse.urljoin(base, url)
urljoin(base, url) ==
  IF base = "" THEN url
  ELSE IF url = "" THEN base
  ELSE JoinBase(UrlSplit(base, ""), url)

\* urllib.unquote(s), on the escapes of the characters a JSON pointer uses
unquote(s) ==
  StrReplace(StrReplace(StrReplace(s, "%7E", "~"), "%2F", "/"), "%25", "%")

(***************************************************************************)
(* RefResolver: the pure parts.  A resolver is a record                    *)
(*   [base_uri, resolution_scope, referrer, store, cache_remote]           *)
(* whose store is a function from URIs to documents.                       *)
(***************************************************************************)
\* the result of an operation that may raise: a value, or the exception
Ok(x) == [ok |-> TRUE, val |-> x]
Raise(e) == [ok |-> FALSE, exc |-> e]

\* part in document, and document[part]: one step of the JSON pointer walk.
\* A dict is looked up by key.  In a list, `in` compares the (string) part
\* with the elements and indexing by a string is a TypeError; in a string,
\* `in` is the substring test; other objects are not containers.
FragmentStep(document, part) ==
  CASE document.t = "dict" ->
         IF HasKey(document, part) THEN Ok(Get(document, part))
         ELSE Raise("RefResolutionError")
    [] document.t = "list" ->
         IF PyIn(JStr(part), document) THEN Raise("TypeError")
         ELSE Raise("RefResolutionError")
    [] document.t = "str" ->
         IF StrFind(document.v, part) # 0 THEN Raise("TypeError")
         ELSE Raise("RefResolutionError")
    [] OTHER -> Raise("TypeError")

\* the two replacements in the other order
UnescapePart_tilde_first(part) ==
  StrReplace(StrReplace(part, "~0", "~"), "~1", "/")

\* part.replace("~1", "/").replace("~0", "~")
UnescapePart(part) == StrReplace(StrReplace(part, "~1", "/"), "~0", "~")

RECURSIVE WalkParts(_, _)
WalkParts(document, parts) ==
  IF Len(parts) = 0 THEN Ok(document)
  ELSE LET r == FragmentStep(document, UnescapePart(Head(parts)))
       IN IF r.ok THEN WalkParts(r.val, Tail(parts)) ELSE r

\* RefResolver.resolve_fragment
resolve_fragment(document, fragment) ==
  LET stripped == LStrip(fragment, "/")
      parts == IF stripped # "" THEN StrSplit(unquote(stripped), "/") ELSE <<>>
  IN WalkParts(document, parts)

(***************************************************************************)
(* Regular expressions: re.search for the patterns of the model, which are *)
(* alternations ("|") of literal strings.                                  *)
(***************************************************************************)
ReSearch(pattern, string) ==
  LET alts == StrSplit(pattern, "|")
  IN \E i \in 1..Len(alts) : alts[i] = "" \/ StrFind(string, alts[i]) # 0

(***************************************************************************)
(* Violations.  A ValidationError is a record [message, args, validator,   *)
(* path]: args are the objects the message formats, validator is "None"    *)
(* until iter_errors sets it, and path is the list the rules append to     *)
(* (segments are JStr keys and JInt indexes).  The field at is not part of *)
(* the Python object: it records the location of the instance the error    *)
(* was raised for, as the keys and indexes from the root instance.         *)
(***************************************************************************)
ValidationError(message, args, validator, path) ==
  [message |-> message, args |-> args, validator |-> validator, path |-> path,
   at |-> <<>>]

\* _list(thing): a str wrapped in a list
_list(thing) == IF thing.t = "str" THEN JList(<<thing>>) ELSE thing

\* _unbool(element): True and False replaced by objects equal to nothing else
_unbool(element) ==
  IF element.t = "bool" THEN [t |-> "object", v |-> element.v] ELSE element

Hashable(x) == x.t \notin {"list", "dict"}

\* whether < is defined between two objects (Python 3)
RECURSIVE Orderable(_, _)
Orderable(a, b) ==
  IF a.t \in {"int", "float", "bool"} /\ b.t \in {"int", "float", "bool"} THEN TRUE
  ELSE IF a.t = "str" /\ b.t = "str" THEN TRUE
  ELSE IF a.t = "list" /\ b.t = "list"
    THEN \A i \in 1..Len(a.v) : i <= Len(b.v) => Orderable(a.v[i], b.v[i])
  ELSE FALSE

\* e == f for the elements _uniq compares
UniqEq(e, f) ==
  IF e.t = "object" \/ f.t = "object" THEN e = f ELSE PyEq(e, f)

\* _uniq(container): the hash set when every element is hashable, else the
\* sort (every pair must be orderable for sorted() not to raise), else the
\* scan.  Each of them answers whether no two elements are equal.
_uniq(container) ==
  LET es == [i \in 1..Len(container.v) |-> _unbool(container.v[i])]
      n == Len(es)
      by_set == Cardinality({i \in 1..n : \A j \in 1..(i - 1) : ~UniqEq(es[i], es[j])}) = n
      by_sort == ~\E i, j \in 1..n : i < j /\ UniqEq(es[i], es[j])
      by_scan == \A i \in 1..n : ~\E j \in 1..(i - 1) : UniqEq(es[i], es[j])
  IN IF \A i \in 1..n : Hashable(es[i]) THEN by_set
     ELSE IF \A i, j \in 1..n : i # j => Orderable(es[i], es[j]) THEN by_sort
     ELSE by_scan

(***************************************************************************)
(* Keyword rules that do not descend: each gives what the generator        *)
(* yields, in order, and the exception that ends it ("none" if it returns).*)
(***************************************************************************)
Yields(errs) == [errs |-> errs, exc |-> "none"]
Raises(e) == [errs |-> <<>>, exc |-> e]
NoError == Yields(<<>>)
OneError(message, args) == Yields(<<ValidationError(message, args, "None", <<>>)>>)

\* any(self.is_type(instance, type) for type in types): the types are tried
\* in order, and a type the table lacks raises UnknownType when it is reached
RECURSIVE AnyIsType(_, _)
AnyIsType(instance, types) ==
  IF Len(types) = 0 THEN Ok(FALSE)
  ELSE IF Head(types).t \in {"list", "dict"} THEN Raise("TypeError")
  ELSE IF Head(types).t # "str" \/ ~KnownType(Head(types).v) THEN Raise("UnknownType")
  ELSE IF is_type(instance, Head(types).v) THEN Ok(TRUE)
  ELSE AnyIsType(instance, Tail(types))

\* Draft4Validator.validate_type
Draft4_validate_type(types, instance, schema) ==
  IF _list(types).t # "list" THEN Raises("TypeError")
  ELSE LET r == AnyIsType(instance, _list(types).v)
       IN IF ~r.ok THEN Raises(r.exc)
          ELSE IF ~r.val THEN OneError("%r is not of type %s", <<instance, _list(types)>>)
          ELSE NoError

\* Python's `in`, for the containers of the model
Contains(container, x) ==
  CASE container.t = "list" -> PyIn(x, container)
    [] container.t = "dict" -> x.t = "str" /\ HasKey(container, x.v)
    [] OTHER -> FALSE

validate_enum(enums, instance, schema) ==
  IF ~Contains(enums, instance)
    THEN OneError("%r is not one of %r", <<instance, enums>>)
    ELSE NoError

\* Draft4Validator.validate_required
Draft4_validate_required(required, instance, schema) ==
  IF ~is_type(instance, "object") THEN NoError
  ELSE LET missing == SelectSeq(required.v, LAMBDA property : ~Contains(instance, property))
       IN Yields([i \in 1..Len(missing) |->
                   ValidationError("%r is required property", <<missing[i]>>, "None", <<>>)])

validate_minimum(minimum, instance, schema) ==
  IF ~is_type(instance, "number") THEN NoError
  ELSE IF Truthy(GetOr(schema, "exclusiveMinimum", JBool(FALSE)))
    THEN IF Tenths(instance) <= Tenths(minimum)
           THEN OneError("%r is %s the minimum of %r",
                         <<instance, JStr("less than or equal to"), minimum>>)
           ELSE NoError
  ELSE IF Tenths(instance) < Tenths(minimum)
    THEN OneError("%r is %s the minimum of %r", <<instance, JStr("less than"), minimum>>)
  ELSE NoError

validate_maximum(maximum, instance, schema) ==
  IF ~is_type(instance, "number") THEN NoError
  ELSE IF Truthy(GetOr(schema, "exclusiveMaximum", JBool(FALSE)))
    THEN IF Tenths(instance) >= Tenths(maximum)
           THEN OneError("%r is %s the maximum of %r",
                         <<instance, JStr("greater than or equal to"), maximum>>)
           ELSE NoError
  ELSE IF Tenths(instance) > Tenths(maximum)
    THEN OneError("%r is %s the maximum of %r", <<instance, JStr("greater than"), maximum>>)
  ELSE NoError

validate_minItems(mI, instance, schema) ==
  IF is_type(instance, "array") /\ PyLen(instance) < mI.v
    THEN OneError("%r is too short", <<instance>>) ELSE NoError

validate_maxItems(mI, instance, schema) ==
  IF is_type(instance, "array") /\ PyLen(instance) > mI.v
    THEN OneError("%r is too long", <<instance>>) ELSE NoError

validate_uniqueItems(uI, instance, schema) ==
  IF Truthy(uI) /\ is_type(instance, "array") /\ ~_uniq(instance)
    THEN OneError("%r has non-unique elements", <<instance>>) ELSE NoError

validate_pattern(patrn, instance, schema) ==
  IF is_type(instance, "string") /\ ~ReSearch(patrn.v, instance.v)
    THEN OneError("%r does not match %r", <<instance, patrn>>) ELSE NoError

\* the validators of the model are built without a format_checker
format_checker == JNull

validate_format(format, instance, schema) ==
  IF format_checker # JNull /\ is_type(instance, "string")
    THEN OneError("%r is not a %r", <<instance, format>>) ELSE NoError

validate_minLength(mL, instance, schema) ==
  IF is_type(instance, "string") /\ PyLen(instance) < mL.v
    THEN OneError("%r is too short", <<instance>>) ELSE NoError

validate_maxLength(mL, instance, schema) ==
  IF is_type(instance, "string") /\ PyLen(instance) > mL.v
    THEN OneError("%r is too long", <<instance>>) ELSE NoError

Draft4_validate_minProperties(mP, instance, schema) ==
  IF is_type(instance, "object") /\ PyLen(instance) < mP.v
    THEN OneError("%r is too short", <<instance>>) ELSE NoError

Draft4_validate_maxProperties(mP, instance, schema) ==
  IF ~is_type(instance, "object") THEN NoError
  ELSE IF is_type(instance, "object") /\ PyLen(instance) > mP.v
    THEN OneError("%r is too short", <<instance>>)
  ELSE NoError

\* _find_additional_properties(instance, schema), in the order of the instance
_find_additional_properties(instance, schema) ==
  LET properties == GetOr(schema, "properties", JDict(<<>>))
      patterns == StrJoin(Keys(GetOr(schema, "patternProperties", JDict(<<>>))), "|")
  IN SelectSeq(Keys(instance),
               LAMBDA property :
                 /\ ~HasKey(properties, property)
                 /\ ~(patterns # "" /\ ReSearch(patterns, property)))

(***************************************************************************)
(* The meta-schemas, as the class attributes META_SCHEMA spell them.       *)
(***************************************************************************)
Draft3_META_SCHEMA ==
  JDict(<<
    <<"$schema", JStr("http://json-schema.org/draft-03/schema#")>>,
    <<"id", JStr("http://json-schema.org/draft-03/schema#")>>,
    <<"type", JStr("object")>>,
    <<"properties", JDict(<<
      <<"type", JDict(<<
        <<"type", JList(<<JStr("string"), JStr("array")>>)>>,
        <<"items", JDict(<<
          <<"type", JList(<<JStr("string"), JDict(<<<<"$ref", JStr("#")>>>>)>>)>>>>)>>,
        <<"uniqueItems", JBool(TRUE)>>,
        <<"default", JStr("any")>>>>)>>,
      <<"properties", JDict(<<
        <<"type", JStr("object")>>,
        <<"additionalProperties", JDict(<<<<"$ref", JStr("#")>>, <<"type", JStr("object")>>>>)>>,
        <<"default", JDict(<<>>)>>>>)>>,
      <<"patternProperties", JDict(<<
        <<"type", JStr("object")>>,
        <<"additionalProperties", JDict(<<<<"$ref", JStr("#")>>>>)>>,
        <<"default", JDict(<<>>)>>>>)>>,
      <<"additionalProperties", JDict(<<
        <<"type", JList(<<JDict(<<<<"$ref", JStr("#")>>>>), JStr("boolean")>>)>>,
        <<"default", JDict(<<>>)>>>>)>>,
      <<"items", JDict(<<
        <<"type", JList(<<JDict(<<<<"$ref", JStr("#")>>>>), JStr("array")>>)>>,
        <<"items", JDict(<<<<"$ref", JStr("#")>>>>)>>,
        <<"default", JDict(<<>>)>>>>)>>,
      <<"additionalItems", JDict(<<
        <<"type", JList(<<JDict(<<<<"$ref", JStr("#")>>>>), JStr("boolean")>>)>>,
        <<"default", JDict(<<>>)>>>>)>>,
      <<"required", JDict(<<<<"type", JStr("boolean")>>, <<"default", JBool(FALSE)>>>>)>>,
      <<"dependencies", JDict(<<
        <<"type", JList(<<JStr("string"), JStr("array"), JStr("object")>>)>>,
        <<"additionalProperties", JDict(<<
          <<"type", JList(<<
            JStr("string"),
            JStr("array"),
            JDict(<<<<"$ref", JStr("#")>>>>)>>)>>,
          <<"items", JDict(<<<<"type", JStr("string")>>>>)>>>>)>>,
        <<"default", JDict(<<>>)>>>>)>>,
      <<"minimum", JDict(<<<<"type", JStr("number")>>>>)>>,
      <<"maximum", JDict(<<<<"type", JStr("number")>>>>)>>,
      <<"exclusiveMinimum", JDict(<<<<"type", JStr("boolean")>>, <<"default", JBool(FALSE)>>>>)>>,
      <<"exclusiveMaximum", JDict(<<<<"type", JStr("boolean")>>, <<"default", JBool(FALSE)>>>>)>>,
      <<"minItems", JDict(<<
        <<"type", JStr("integer")>>,
        <<"minimum", JInt(0)>>,
        <<"default", JInt(0)>>>>)>>,
      <<"maxItems", JDict(<<<<"type", JStr("integer")>>, <<"minimum", JInt(0)>>>>)>>,
      <<"uniqueItems", JDict(<<<<"type", JStr("boolean")>>, <<"default", JBool(FALSE)>>>>)>>,
      <<"pattern", JDict(<<<<"type", JStr("string")>>, <<"format", JStr("regex")>>>>)>>,
      <<"minLength", JDict(<<
        <<"type", JStr("integer")>>,
        <<"minimum", JInt(0)>>,
        <<"default", JInt(0)>>>>)>>,
      <<"maxLength", JDict(<<<<"type", JStr("integer")>>>>)>>,
      <<"enum", JDict(<<
        <<"type", JStr("array")>>,
        <<"minItems", JInt(1)>>,
        <<"uniqueItems", JBool(TRUE)>>>>)>>,
      <<"default", JDict(<<<<"type", JStr("any")>>>>)>>,
      <<"title", JDict(<<<<"type", JStr("string")>>>>)>>,
      <<"description", JDict(<<<<"type", JStr("string")>>>>)>>,
      <<"format", JDict(<<<<"type", JStr("string")>>>>)>>,
      <<"maxDecimal", JDict(<<<<"type", JStr("number")>>, <<"minimum", JInt(0)>>>>)>>,
      <<"divisibleBy", JDict(<<
        <<"type", JStr("number")>>,
        <<"minimum", JInt(0)>>,
        <<"exclusiveMinimum", JBool(TRUE)>>,
        <<"default", JInt(1)>>>>)>>,
      <<"disallow", JDict(<<
        <<"type", JList(<<JStr("string"), JStr("array")>>)>>,
        <<"items", JDict(<<
          <<"type", JList(<<JStr("string"), JDict(<<<<"$ref", JStr("#")>>>>)>>)>>>>)>>,
        <<"uniqueItems", JBool(TRUE)>>>>)>>,
      <<"extends", JDict(<<
        <<"type", JList(<<JDict(<<<<"$ref", JStr("#")>>>>), JStr("array")>>)>>,
        <<"items", JDict(<<<<"$ref", JStr("#")>>>>)>>,
        <<"default", JDict(<<>>)>>>>)>>,
      <<"id", JDict(<<<<"type", JStr("string")>>, <<"format", JStr("uri")>>>>)>>,
      <<"$ref", JDict(<<<<"type", JStr("string")>>, <<"format", JStr("uri")>>>>)>>,
      <<"$schema", JDict(<<<<"type", JStr("string")>>, <<"format", JStr("uri")>>>>)>>>>)>>,
    <<"dependencies", JDict(<<
      <<"exclusiveMinimum", JStr("minimum")>>,
      <<"exclusiveMaximum", JStr("maximum")>>>>)>>>>)

Draft4_META_SCHEMA ==
  JDict(<<
    <<"id", JStr("http://json-schema.org/draft-04/schema#")>>,
    <<"$schema", JStr("http://json-schema.org/draft-04/schema#")>>,
    <<"description", JStr("Core schema meta-schema")>>,
    <<"definitions", JDict(<<
      <<"schemaArray", JDict(<<
        <<"type", JStr("array")>>,
        <<"minItems", JInt(1)>>,
        <<"items", JDict(<<<<"$ref", JStr("#")>>>>)>>>>)>>,
      <<"positiveInteger", JDict(<<<<"type", JStr("integer")>>, <<"minimum", JInt(0)>>>>)>>,
      <<"positiveIntegerDefault0", JDict(<<
        <<"allOf", JList(<<
          JDict(<<<<"$ref", JStr("#/definitions/positiveInteger")>>>>),
          JDict(<<<<"default", JInt(0)>>>>)>>)>>>>)>>,
      <<"simpleTypes", JDict(<<
        <<"enum", JList(<<
          JStr("array"),
          JStr("boolean"),
          JStr("integer"),
          JStr("null"),
          JStr("number"),
          JStr("object"),
          JStr("string")>>)>>>>)>>,
      <<"stringArray", JDict(<<
        <<"type", JStr("array")>>,
        <<"items", JDict(<<<<"type", JStr("string")>>>>)>>,
        <<"minItems", JInt(1)>>,
        <<"uniqueItems", JBool(TRUE)>>>>)>>>>)>>,
    <<"type", JStr("object")>>,
    <<"properties", JDict(<<
      <<"id", JDict(<<<<"type", JStr("string")>>, <<"format", JStr("uri")>>>>)>>,
      <<"$schema", JDict(<<<<"type", JStr("string")>>, <<"format", JStr("uri")>>>>)>>,
      <<"title", JDict(<<<<"type", JStr("string")>>>>)>>,
      <<"description", JDict(<<<<"type", JStr("string")>>>>)>>,
      <<"default", JDict(<<>>)>>,
      <<"multipleOf", JDict(<<
        <<"type", JStr("number")>>,
        <<"minimum", JInt(0)>>,
        <<"exclusiveMinimum", JBool(TRUE)>>>>)>>,
      <<"maximum", JDict(<<<<"type", JStr("number")>>>>)>>,
      <<"exclusiveMaximum", JDict(<<<<"type", JStr("boolean")>>, <<"default", JBool(FALSE)>>>>)>>,
      <<"minimum", JDict(<<<<"type", JStr("number")>>>>)>>,
      <<"exclusiveMinimum", JDict(<<<<"type", JStr("boolean")>>, <<"default", JBool(FALSE)>>>>)>>,
      <<"maxLength", JDict(<<<<"$ref", JStr("#/definitions/positiveInteger")>>>>)>>,
      <<"minLength", JDict(<<<<"$ref", JStr("#/definitions/positiveIntegerDefault0")>>>>)>>,
      <<"pattern", JDict(<<<<"type", JStr("string")>>, <<"format", JStr("regex")>>>>)>>,
      <<"additionalItems", JDict(<<
        <<"anyOf", JList(<<
          JDict(<<<<"type", JStr("boolean")>>>>),
          JDict(<<<<"$ref", JStr("#")>>>>)>>)>>,
        <<"default", JDict(<<>>)>>>>)>>,
      <<"items", JDict(<<
        <<"anyOf", JList(<<
          JDict(<<<<"$ref", JStr("#")>>>>),
          JDict(<<<<"$ref", JStr("#/definitions/schemaArray")>>>>)>>)>>,
        <<"default", JDict(<<>>)>>>>)>>,
      <<"maxItems", JDict(<<<<"$ref", JStr("#/definitions/positiveInteger")>>>>)>>,
      <<"minItems", JDict(<<<<"$ref", JStr("#/definitions/positiveIntegerDefault0")>>>>)>>,
      <<"uniqueItems", JDict(<<<<"type", JStr("boolean")>>, <<"default", JBool(FALSE)>>>>)>>,
      <<"maxProperties", JDict(<<<<"$ref", JStr("#/definitions/positiveInteger")>>>>)>>,
      <<"minProperties", JDict(<<<<"$ref", JStr("#/definitions/positiveIntegerDefault0")>>>>)>>,
      <<"required", JDict(<<<<"$ref", JStr("#/definitions/stringArray")>>>>)>>,
      <<"additionalProperties", JDict(<<
        <<"anyOf", JList(<<
          JDict(<<<<"type", JStr("boolean")>>>>),
          JDict(<<<<"$ref", JStr("#")>>>>)>>)>>,
        <<"default", JDict(<<>>)>>>>)>>,
      <<"definitions", JDict(<<
        <<"type", JStr("object")>>,
        <<"additionalProperties", JDict(<<<<"$ref", JStr("#")>>>>)>>,
        <<"default", JDict(<<>>)>>>>)>>,
      <<"properties", JDict(<<
        <<"type", JStr("object")>>,
        <<"additionalProperties", JDict(<<<<"$ref", JStr("#")>>>>)>>,
        <<"default", JDict(<<>>)>>>>)>>,
      <<"patternProperties", JDict(<<
        <<"type", JStr("object")>>,
        <<"additionalProperties", JDict(<<<<"$ref", JStr("#")>>>>)>>,
        <<"default", JDict(<<>>)>>>>)>>,
      <<"dependencies", JDict(<<
        <<"type", JStr("object")>>,
        <<"additionalProperties", JDict(<<
          <<"anyOf", JList(<<
            JDict(<<<<"$ref", JStr("#")>>>>),
            JDict(<<<<"$ref", JStr("#/definitions/stringArray")>>>>)>>)>>>>)>>>>)>>,
      <<"enum", JDict(<<
        <<"type", JStr("array")>>,
        <<"minItems", JInt(1)>>,
        <<"uniqueItems", JBool(TRUE)>>>>)>>,
      <<"type", JDict(<<
        <<"anyOf", JList(<<
          JDict(<<<<"$ref", JStr("#/definitions/simpleTypes")>>>>),
          JDict(<<
            <<"type", JStr("array")>>,
            <<"items", JDict(<<<<"$ref", JStr("#/definitions/simpleTypes")>>>>)>>,
            <<"minItems", JInt(1)>>,
            <<"uniqueItems", JBool(TRUE)>>>>)>>)>>>>)>>,
      <<"allOf", JDict(<<<<"$ref", JStr("#/definitions/schemaArray")>>>>)>>,
      <<"anyOf", JDict(<<<<"$ref", JStr("#/definitions/schemaArray")>>>>)>>,
      <<"oneOf", JDict(<<<<"$ref", JStr("#/definitions/schemaArray")>>>>)>>,
      <<"not", JDict(<<<<"$ref", JStr("#")>>>>)>>>>)>>,
    <<"dependencies", JDict(<<
      <<"exclusiveMaximum", JList(<<JStr("maximum")>>)>>,
      <<"exclusiveMinimum", JList(<<JStr("minimum")>>)>>>>)>>,
    <<"default", JDict(<<>>)>>>>)

(***************************************************************************)
(* RefResolver: construction and the scoped operations.                    *)
(***************************************************************************)
\* _meta_schemas(): the meta-schema of every registered validator, by its
\* id without the fragment
_meta_schemas ==
  (urldefrag(Get(Draft3_META_SCHEMA, "id").v)[1] :> Draft3_META_SCHEMA)
    @@ (urldefrag(Get(Draft4_META_SCHEMA, "id").v)[1] :> Draft4_META_SCHEMA)

\* RefResolver.__init__: dict(store, **_meta_schemas())
RefResolver(base_uri, referrer, store, cache_remote) ==
  [base_uri |-> base_uri, resolution_scope |-> base_uri, referrer |-> referrer,
   store |-> _meta_schemas @@ store, cache_remote |-> cache_remote]

\* RefResolver.from_schema
from_schema(schema) ==
  RefResolver(GetOr(schema, "id", JStr("")).v, schema, <<>>, TRUE)

\* in_scope: entry, and the finally clause
EnterScope(r, scope) ==
  [r EXCEPT !.resolution_scope = urljoin(r.resolution_scope, scope)]

ExitScope(r, old_scope) == [r EXCEPT !.resolution_scope = old_scope]

\* the documents a remote fetch can retrieve; fetching any other URI fails.
\* What is served at the URI of a meta-schema is the server's to choose.
Web ==
  ("http://r/int" :> JDict(<<<<"type", JStr("integer")>>>>))
    @@ ("http://json-schema.org/draft-04/schema" :>
          JDict(<<<<"description", JStr("Core schema meta-schema")>>>>))
    @@ ("http://r/defs" :>
          JDict(<<<<"definitions",
                    JDict(<<<<"s", JDict(<<<<"type", JStr("string")>>>>)>>>>)>>>>))

\* a fetch that never writes the store
resolve_remote_uncached(r, uri) ==
  IF uri \in DOMAIN Web
    THEN [ok |-> TRUE, val |-> Web[uri], r |-> r,
          asked |-> <<[uri |-> uri, ok |-> TRUE]>>]
    ELSE [ok |-> FALSE, exc |-> "URLError", r |-> r,
          asked |-> <<[uri |-> uri, ok |-> FALSE]>>]

\* RefResolver.resolve_remote: the handler's, requests' or urlopen's
\* exception leaves as it is raised
resolve_remote(r, uri) ==
  IF uri \in DOMAIN Web
    THEN [ok |-> TRUE, val |-> Web[uri],
          r |-> IF r.cache_remote
                  THEN [r EXCEPT !.store = (uri :> Web[uri]) @@ r.store]
                  ELSE r,
          asked |-> <<[uri |-> uri, ok |-> TRUE]>>]
    ELSE [ok |-> FALSE, exc |-> "URLError", r |-> r,
          asked |-> <<[uri |-> uri, ok |-> FALSE]>>]

\* resolving(ref): the document of uri, from the store, the referrer or
\* the network
Document(r, uri) ==
  IF uri \in DOMAIN r.store
    THEN [ok |-> TRUE, val |-> r.store[uri], r |-> r, asked |-> <<>>]
  ELSE IF uri = "" \/ uri = r.base_uri
    THEN [ok |-> TRUE, val |-> r.referrer, r |-> r, asked |-> <<>>]
  ELSE resolve_remote(r, uri)

\* resolving(ref), from the assignment of base_uri and referrer to the
\* entry of in_scope(uri)
Resolving(r, uri, fragment, found) ==
  IF ~found.ok
    THEN [ok |-> FALSE, exc |-> found.exc, r |-> found.r, asked |-> found.asked,
          uri |-> uri]
  ELSE [ok |-> TRUE, asked |-> found.asked, uri |-> uri,
        r |-> EnterScope([found.r EXCEPT !.base_uri = uri, !.referrer = found.val],
                         uri),
        saved |-> [old_base_uri |-> r.base_uri, old_referrer |-> r.referrer,
                   old_scope |-> found.r.resolution_scope],
        document |-> found.val,
        fragment |-> fragment]

\* resolving(ref) up to the yield: the resolver then, what the finally
\* clauses restore, and the document and fragment to be resolved
EnterResolving(r, ref) ==
  Resolving(r, urldefrag(urljoin(r.resolution_scope, ref))[1],
            urldefrag(urljoin(r.resolution_scope, ref))[2],
            Document(r, urldefrag(urljoin(r.resolution_scope, ref))[1]))

\* only the finally clause of in_scope
ExitResolving_scope(r, saved) == ExitScope(r, saved.old_scope)

\* resolving(ref): the two finally clauses, in_scope's and then its own
ExitResolving(r, saved) ==
  [ExitScope(r, saved.old_scope) EXCEPT !.base_uri = saved.old_base_uri,
                                        !.referrer = saved.old_referrer]

(***************************************************************************)
(* The evaluator.  Generators are frames on a stack: a frame of kind       *)
(* "call" is a consumer (is_valid, validate, check_schema, or a caller     *)
(* that exhausts iter_errors), a frame of kind "iter" is an iter_errors    *)
(* generator and a frame of kind "rule" is the generator of one keyword    *)
(* rule.  The frames above a consumer are the chain of generators it is    *)
(* pulling from, the outermost first.                                      *)
(***************************************************************************)
CallFrame(op, instance) ==
  [kind |-> "call", op |-> op, inst |-> instance, got |-> <<>>]

\* iter_errors(instance, _schema), at its first next(): the generator and
\* the resolver inside in_scope(_schema.get("id", ""))
IterFrame(r, instance, schema, at) ==
  [kind |-> "iter", inst |-> instance, schema |-> schema, k |-> 1,
   old_scope |-> r.resolution_scope, at |-> at]

IterEnter(r, schema) == EnterScope(r, GetOr(schema, "id", JStr("")).v)

\* the three fields of a resolver the scoped operations assign
Fields(r) ==
  [base_uri |-> r.base_uri, referrer |-> r.referrer,
   resolution_scope |-> r.resolution_scope]

\* validator(v, instance, _schema): the generator of a rule, not yet
\* started; entry is the resolver's fields at the call
RuleFrame(rule, v, instance, schema, at, r) ==
  [kind |-> "rule", rule |-> rule, v |-> v, inst |-> instance, schema |-> schema,
   st |-> "new", i |-> 1, j |-> 1, todo |-> <<>>, exc |-> "none",
   saved |-> JNull, cur |-> JNull, at |-> at, entry |-> Fields(r)]

\* what a step of a rule does next
TIter(f, r, instance, schema, at) ==
  [do |-> "iter", frame |-> f, r |-> r, inst |-> instance, schema |-> schema, at |-> at]
TValid(f, r, instance, schema) ==
  [do |-> "valid", frame |-> f, r |-> r, inst |-> instance, schema |-> schema]
TYield(f, r, err) == [do |-> "yield", frame |-> f, r |-> r, err |-> err]
TReturn(f, r) == [do |-> "return", frame |-> f, r |-> r]
TRaise(f, r, exc) == [do |-> "raise", frame |-> f, r |-> r, exc |-> exc]
TStay(f, r) == [do |-> "stay", frame |-> f, r |-> r]

\* an error raised for the instance of frame f
ErrorAt(f, message, args) ==
  [ValidationError(message, args, "None", <<>>) EXCEPT !.at = f.at]

\* the least element of a non-empty set of integers
Least(S) == CHOOSE x \in S : \A y \in S : x <= y

(***************************************************************************)
(* Keyword rules, one step at a time.  A step is given the rule's frame f, *)
(* the resolver r, and, for the rules that call is_valid, whether a call   *)
(* has just returned (m = "ret") and what it returned (c.valid).           *)
(***************************************************************************)
\* a rule that does not descend: what it yields, one error at a resumption
LeafStep(f, r, res) ==
  LET g == IF f.st = "new"
             THEN [f EXCEPT !.st = "run", !.todo = res.errs, !.exc = res.exc]
             ELSE f
  IN IF Len(g.todo) > 0
       THEN TYield([g EXCEPT !.todo = Tail(g.todo)], r, [Head(g.todo) EXCEPT !.at = f.at])
     ELSE IF g.exc # "none" THEN TRaise(g, r, g.exc)
     ELSE TReturn(g, r)

\* Draft4Validator.validate_properties
Draft4_validate_properties(f, r) ==
  IF ~is_type(f.inst, "object") THEN TReturn(f, r)
  ELSE
    LET props == f.v.v
        cand == {i \in f.i..Len(props) : HasKey(f.inst, props[i][1])}
    IN IF cand = {} THEN TReturn(f, r)
       ELSE LET i == Least(cand)
                property == props[i][1]
            IN TIter([f EXCEPT !.i = i + 1, !.cur = JStr(property)], r,
                     Get(f.inst, property), props[i][2],
                     Append(f.at, JStr(property)))

\* Draft3Validator.validate_properties
Draft3_validate_properties(f, r) ==
  IF ~is_type(f.inst, "object") THEN TReturn(f, r)
  ELSE
    LET props == f.v.v
        cand == {i \in f.i..Len(props) :
                   \/ HasKey(f.inst, props[i][1])
                   \/ Truthy(GetOr(props[i][2], "required", JBool(FALSE)))}
    IN IF cand = {} THEN TReturn(f, r)
       ELSE LET i == Least(cand)
                property == props[i][1]
            IN IF HasKey(f.inst, property)
                 THEN TIter([f EXCEPT !.i = i + 1, !.cur = JStr(property)], r,
                            Get(f.inst, property), props[i][2],
                            Append(f.at, JStr(property)))
                 ELSE TYield([f EXCEPT !.i = i + 1, !.cur = JNull], r,
                             [ValidationError("%r is a required property",
                                              <<JStr(property)>>, "required",
                                              <<JStr(property)>>)
                                EXCEPT !.at = Append(f.at, JStr(property))])

validate_items(f, r) ==
  IF ~is_type(f.inst, "array") THEN TReturn(f, r)
  ELSE IF ~is_type(f.v, "object") /\ ~is_type(f.v, "array") THEN TRaise(f, r, "TypeError")
  ELSE
    LET n == IF is_type(f.v, "object") \/ PyLen(f.inst) <= PyLen(f.v)
               THEN PyLen(f.inst) ELSE PyLen(f.v)
        index == f.i - 1
    IN IF f.i > n THEN TReturn(f, r)
       ELSE TIter([f EXCEPT !.i = f.i + 1, !.cur = JInt(index)], r,
                  f.inst.v[f.i],
                  IF is_type(f.v, "object") THEN f.v ELSE f.v.v[f.i],
                  Append(f.at, JInt(index)))

validate_patternProperties(f, r) ==
  IF ~is_type(f.inst, "object") THEN TReturn(f, r)
  ELSE IF f.i > PyLen(f.v) THEN TReturn(f, r)
  ELSE IF f.j > PyLen(f.inst) THEN TStay([f EXCEPT !.i = f.i + 1, !.j = 1], r)
  ELSE IF ReSearch(f.v.v[f.i][1], f.inst.v[f.j][1])
    THEN TIter([f EXCEPT !.j = f.j + 1], r, f.inst.v[f.j][2], f.v.v[f.i][2],
               Append(f.at, JStr(f.inst.v[f.j][1])))
  ELSE TStay([f EXCEPT !.j = f.j + 1], r)

\* the set extras is walked in an order the build chooses: pick is the
\* position, among those still to come, of the one taken next
validate_additionalProperties(f, r, pick) ==
  IF f.st = "done" THEN TReturn(f, r)
  ELSE IF f.st = "new"
    THEN IF ~is_type(f.inst, "object") THEN TReturn(f, r)
         ELSE LET extras == _find_additional_properties(f.inst, f.schema)
              IN IF is_type(f.v, "object")
                   THEN TStay([f EXCEPT !.st = "loop", !.todo = extras], r)
                 ELSE IF ~Truthy(f.v) /\ Len(extras) > 0
                   THEN TYield([f EXCEPT !.st = "done"], r,
                               ErrorAt(f, "Additional properties are not allowed (%s %s unexpected)",
                                       <<[t |-> "set", v |-> {extras[i] : i \in 1..Len(extras)}]>>))
                 ELSE TReturn(f, r)
  ELSE IF Len(f.todo) = 0 THEN TReturn(f, r)
  ELSE LET extra == f.todo[pick]
       IN TIter([f EXCEPT !.todo = SelectSeq(f.todo, LAMBDA x : x # extra)], r,
                Get(f.inst, extra), f.v, Append(f.at, JStr(extra)))

validate_additionalItems(f, r) ==
  IF f.st = "done" THEN TReturn(f, r)
  ELSE IF \/ ~is_type(f.inst, "array")
          \/ is_type(GetOr(f.schema, "items", JDict(<<>>)), "object")
    THEN TReturn(f, r)
  ELSE IF is_type(f.v, "object")
    THEN LET pos == PyLen(f.schema) + f.i
         IN IF pos > PyLen(f.inst) THEN TReturn(f, r)
            ELSE TIter([f EXCEPT !.i = f.i + 1], r, f.inst.v[pos], f.v,
                       Append(f.at, JInt(pos - 1)))
  ELSE LET nitems == PyLen(GetOr(f.schema, "items", JList(<<>>)))
       IN IF ~Truthy(f.v) /\ PyLen(f.inst) > nitems
            THEN TYield([f EXCEPT !.st = "done"], r,
                        ErrorAt(f, "Additional items are not allowed (%s %s unexpected)",
                                <<JList(SubSeq(f.inst.v, nitems + 1, PyLen(f.inst)))>>))
            ELSE TReturn(f, r)

validate_dependencies(f, r) ==
  IF ~is_type(f.inst, "object") THEN TReturn(f, r)
  ELSE IF f.i > PyLen(f.v) THEN TReturn(f, r)
  ELSE
    LET property == f.v.v[f.i][1]
        dependency == f.v.v[f.i][2]
        deps == _list(dependency).v
    IN IF ~HasKey(f.inst, property) THEN TStay([f EXCEPT !.i = f.i + 1, !.j = 1], r)
       ELSE IF is_type(dependency, "object")
         THEN TIter([f EXCEPT !.i = f.i + 1, !.j = 1], r, f.inst, dependency, f.at)
       ELSE IF f.j > Len(deps) THEN TStay([f EXCEPT !.i = f.i + 1, !.j = 1], r)
       ELSE IF ~Contains(f.inst, deps[f.j])
         THEN TYield([f EXCEPT !.j = f.j + 1], r,
                     ErrorAt(f, "%r is a dependency of %r", <<deps[f.j], JStr(property)>>))
       ELSE TStay([f EXCEPT !.j = f.j + 1], r)

\* validate_ref: `with self.resolver.resolving(ref) as resolved`, the loop
\* over iter_errors(instance, resolved), and the exit of the with block
validate_ref(f, r) ==
  IF f.st = "new"
    THEN LET e == EnterResolving(r, f.v.v)
         IN IF ~e.ok THEN TRaise(f, e.r, e.exc)
            ELSE TStay([f EXCEPT !.st = "entered", !.saved = e.saved,
                                 !.todo = <<e.document, JStr(e.fragment)>>], e.r)
  ELSE IF f.st = "entered"
    THEN LET resolved == resolve_fragment(f.todo[1], f.todo[2].v)
         IN IF ~resolved.ok THEN TRaise(f, r, resolved.exc)
            ELSE TIter([f EXCEPT !.st = "body", !.todo = <<>>], r, f.inst, resolved.val, f.at)
  ELSE TReturn([f EXCEPT !.st = "exited"], ExitResolving(r, f.saved))

\* Draft4Validator.validate_allOf
Draft4_validate_allOf(f, r) ==
  IF f.i > PyLen(f.v) THEN TReturn(f, r)
  ELSE TIter([f EXCEPT !.i = f.i + 1], r, f.inst, f.v.v[f.i], f.at)

\* Draft3Validator.validate_extends
Draft3_validate_extends(f, r) ==
  LET extends == IF is_type(f.v, "object") THEN <<f.v>> ELSE f.v.v
  IN IF f.i > Len(extends) THEN TReturn(f, r)
     ELSE TIter([f EXCEPT !.i = f.i + 1], r, f.inst, extends[f.i], f.at)

\* Draft4Validator.validate_anyOf
Draft4_validate_anyOf(f, r, m, c) ==
  IF f.st = "done" THEN TReturn(f, r)
  ELSE IF m = "ret" /\ c.valid THEN TReturn(f, r)
  ELSE IF f.i > PyLen(f.v)
    THEN TYield([f EXCEPT !.st = "done"], r,
                ErrorAt(f, "The instance is not valid under any of the given schemas.", <<>>))
  ELSE TValid([f EXCEPT !.i = f.i + 1], r, f.inst, f.v.v[f.i])

\* Draft4Validator.validate_not
Draft4_validate_not(f, r, m, c) ==
  IF f.st = "new" THEN TValid([f EXCEPT !.st = "asked"], r, f.inst, f.v)
  ELSE IF f.st = "asked" /\ m = "ret" /\ c.valid
    THEN TYield([f EXCEPT !.st = "done"], r,
                ErrorAt(f, "%r is not allowed for %r", <<f.v, f.inst>>))
  ELSE TReturn(f, r)

\* oneOf satisfied by the first subschema that passes, as anyOf is
Draft4_validate_oneOf_any(f, r, m, c) == Draft4_validate_anyOf(f, r, m, c)

\* Draft4Validator.validate_oneOf: the search for first_valid, then the
\* list more_valid over the rest of the same iterator
Draft4_validate_oneOf(f, r, m, c) ==
  LET passed == m = "ret" /\ c.valid
      g == IF f.st = "first" /\ passed
             THEN [f EXCEPT !.st = "more", !.saved = f.v.v[f.i - 1]]
           ELSE IF f.st = "more" /\ passed
             THEN [f EXCEPT !.todo = Append(f.todo, f.v.v[f.i - 1])]
           ELSE f
  IN IF g.st = "done" THEN TReturn(g, r)
     ELSE IF g.i <= PyLen(g.v)
       THEN TValid([g EXCEPT !.i = g.i + 1,
                             !.st = IF g.st = "new" THEN "first" ELSE g.st],
                   r, g.inst, g.v.v[g.i])
     ELSE IF g.st \in {"new", "first"}
       THEN TYield([g EXCEPT !.st = "done"], r,
                   ErrorAt(g, "%r is not valid under any of the given schemas.", <<g.inst>>))
     ELSE IF Len(g.todo) > 0
       THEN TYield([g EXCEPT !.st = "done"], r,
                   ErrorAt(g, "%r is valid under each of %s",
                           <<g.inst, JList(Append(g.todo, g.saved))>>))
     ELSE TReturn(g, r)

\* Draft3Validator.validate_type
Draft3_validate_type(f, r, m, c) ==
  LET types == _list(f.v).v
  IN IF f.st = "done" THEN TReturn(f, r)
     ELSE IF m = "ret" /\ c.valid THEN TReturn(f, r)
     ELSE IF f.i > Len(types)
       THEN TYield([f EXCEPT !.st = "done"], r,
                   ErrorAt(f, "%r is not of type %s", <<f.inst, _list(f.v)>>))
     ELSE
       LET type == types[f.i]
           next == [f EXCEPT !.i = f.i + 1]
       IN IF type = JStr("any") THEN TReturn(f, r)
          ELSE IF is_type(type, "object") THEN TValid(next, r, f.inst, type)
          ELSE IF is_type(type, "string")
            THEN IF ~KnownType(type.v) THEN TRaise(f, r, "UnknownType")
                 ELSE IF is_type(f.inst, type.v) THEN TReturn(f, r)
                 ELSE TStay(next, r)
          ELSE TStay(next, r)

\* Draft3Validator.validate_disallow
Draft3_validate_disallow(f, r, m, c) ==
  LET disallow == _list(f.v).v
  IN IF m = "ret" /\ c.valid
       THEN TYield(f, r, ErrorAt(f, "%r is disallowed for %r", <<disallow[f.i - 1], f.inst>>))
     ELSE IF f.i > Len(disallow) THEN TReturn(f, r)
     ELSE TValid([f EXCEPT !.i = f.i + 1], r, f.inst,
                 JDict(<<<<"type", JList(<<disallow[f.i]>>)>>>>))

(***************************************************************************)
(* The classes and the registries validates() fills.                       *)
(***************************************************************************)
\* the validate_* methods of a class; divisibleBy and multipleOf (float
\* arithmetic) are left out, and no schema of the model uses them
Methods(cls) ==
  {"patternProperties", "additionalProperties", "items", "additionalItems",
   "minimum", "maximum", "minItems", "maxItems", "uniqueItems", "pattern",
   "format", "minLength", "maxLength", "dependencies", "enum", "ref",
   "type", "properties"}
    \cup (IF cls = "Draft3Validator" THEN {"disallow", "extends"}
          ELSE {"required", "minProperties", "maxProperties", "allOf", "oneOf",
                "anyOf", "not"})

META_SCHEMA(cls) ==
  IF cls = "Draft3Validator" THEN Draft3_META_SCHEMA ELSE Draft4_META_SCHEMA

\* validates(version): meta_schemas[cls.META_SCHEMA["id"]] = cls
meta_schemas ==
  (Get(Draft3_META_SCHEMA, "id").v :> "Draft3Validator")
    @@ (Get(Draft4_META_SCHEMA, "id").v :> "Draft4Validator")

\* validate(): cls = meta_schemas.get(schema.get("$schema"), Draft4Validator)
SelectClass(schema) ==
  LET declared == GetOr(schema, "$schema", JNull)
  IN IF declared.t = "str" /\ declared.v \in DOMAIN meta_schemas
       THEN meta_schemas[declared.v]
       ELSE "Draft4Validator"

(***************************************************************************)
(* FormatChecker.  A registry is a function from format names to the       *)
(* functions that check them, given by their names.                        *)
(***************************************************************************)
\* the registries when the module has been imported: the class attribute
\* FormatChecker.checkers after the cls_checks decorators (rfc3987 and
\* isodate not installed), draft4_format_checker and draft3_format_checker
\* (webcolors not installed)
Registries ==
  [cls |-> [format \in {"email", "ipv4", "ipv6", "hostname", "regex"} |->
              CASE format = "email" -> "is_email"
                [] format = "ipv4" -> "is_ipv4"
                [] format = "ipv6" -> "is_ipv6"
                [] format = "hostname" -> "is_host_name"
                [] format = "regex" -> "is_regex"],
   draft4 |-> [format \in {"email", "ipv4", "ipv6", "hostname", "regex"} |->
              CASE format = "email" -> "is_email"
                [] format = "ipv4" -> "is_ipv4"
                [] format = "ipv6" -> "is_ipv6"
                [] format = "hostname" -> "is_host_name"
                [] format = "regex" -> "is_regex"],
   draft3 |-> [format \in {"email", "ipv4", "ipv6", "hostname", "regex",
                            "ip-address", "host-name", "date", "time"} |->
              CASE format = "email" -> "is_email"
                [] format = "ipv4" -> "is_ipv4"
                [] format = "ipv6" -> "is_ipv6"
                [] format = "hostname" -> "is_host_name"
                [] format = "regex" -> "is_regex"
                [] format = "ip-address" -> "is_ipv4"
                [] format = "host-name" -> "is_host_name"
                [] format = "date" -> "is_date"
                [] format = "time" -> "is_time"]]

\* func(instance), for is_email and for the functions the caller registers:
\* is_empty is lambda instance: instance == "" and never is
\* lambda instance: False.  The functions over socket, re and datetime are
\* not called by the model.
Predicate(func, instance) ==
  CASE func = "is_email" -> StrFind(instance, "@") # 0
    [] func = "is_empty" -> instance = ""
    [] func = "never" -> FALSE

\* a registry that accepts only what a registered function accepts
conforms_known_only(registry, instance, format) ==
  format \in DOMAIN registry /\ Predicate(registry[format], instance)

\* FormatChecker.conforms
conforms(registry, instance, format) ==
  IF format \in DOMAIN registry
    THEN Predicate(registry[format], instance)
    ELSE TRUE

(***************************************************************************)
(* State.                                                                  *)
(*   scen     the schema the run is about, with the class of the validator *)
(*            the caller built for it and the instances the caller has     *)
(*   vs, rs   the validators and their resolvers: P is the caller's        *)
(*            validator, M the one check_schema builds over META_SCHEMA    *)
(*            and T the one validate() builds                              *)
(*   self     the validator whose generators are running                   *)
(*   stack    the frames, mode what the top of the stack is doing, carry   *)
(*            what is handed between frames                                *)
(*   call     the top-level call in progress or last made, out its outcome *)
(*   made     the ValidationErrors constructed during the call             *)
(*   started  the keyword rules invoked during the call, by validator      *)
(*   ncalls   the top-level calls made                                     *)
(*   pcall, pret  a call of a function without state, and what it returned *)
(*   fetched  the documents asked of the network by a resolver driven      *)
(*            directly, in order: the URI, whether resolving or the caller *)
(*            asked, and whether a document came back                      *)
(*   checkers the format registries: that of the class FormatChecker and   *)
(*            those of its instances                                       *)
(*   gens     the iter_errors generators a caller holds and takes errors   *)
(*            from one at a time: new, running (its frames are stack),     *)
(*            suspended at a yield with its frames kept, or done           *)
(*   pre      base_uri, referrer and resolution_scope of the caller's      *)
(*            resolver when the top-level call began                       *)
(*   last     call, out and pre of the top-level call before this one      *)
(***************************************************************************)
VARIABLES scen, vs, rs, self, stack, mode, carry, call, out, made, started,
          ncalls, pcall, pret, fetched, checkers, gens, last, pre

vars == <<scen, vs, rs, self, stack, mode, carry, call, out, made, started,
          ncalls, pcall, pret, fetched, checkers, gens, last, pre>>

NoValidator == [cls |-> "none", schema |-> JNull]
NoResolver ==
  [base_uri |-> "", resolution_scope |-> "", referrer |-> JNull, store |-> <<>>,
   cache_remote |-> TRUE]
NoCarry ==
  [valid |-> FALSE, err |-> ValidationError("", <<>>, "None", <<>>), exc |-> "none"]
NoCall == [op |-> "none", instance |-> JNull]
NoOut == [res |-> "none", exc |-> "none", errors |-> <<>>, cls |-> "none"]
NoStarted == [id \in {"P", "M", "T"} |-> 0]
NoPure == [fn |-> "none"]

Top == stack[Len(stack)]
R == rs[self]
Cls == vs[self].cls

\* the consumer the generators on top of the stack are pulled by
Consumer == CHOOSE c \in 1..Len(stack) :
              /\ stack[c].kind = "call"
              /\ \A d \in (c + 1)..Len(stack) : stack[d].kind # "call"

\* an error on its way from the frame under the one that raised it to the
\* consumer: every iter_errors it passes sets the validator if none is set,
\* and properties and items append their segment to the path
RECURSIVE Bubble(_, _, _)
Bubble(err, stk, idx) ==
  IF idx = 0 \/ stk[idx].kind = "call" THEN err
  ELSE IF stk[idx].kind = "iter"
    THEN Bubble(IF err.validator = "None"
                  THEN [err EXCEPT !.validator = Keys(stk[idx].schema)[stk[idx].k]]
                  ELSE err,
                stk, idx - 1)
  ELSE Bubble(IF stk[idx].cur # JNull
                THEN [err EXCEPT !.path = Append(@, stk[idx].cur)]
                ELSE err,
              stk, idx - 1)

\* the step tr of the rule on top of the stack, carried out.  A rule that
\* re-enters iter_errors with MaxDepth frames below it has used up the
\* interpreter's stack, and the call raises in place of being made.
Apply(tr) ==
  LET n == Len(stack)
      base == [stack EXCEPT ![n] = tr.frame]
  IN /\ UNCHANGED <<scen, gens, vs, self, call, out, started, ncalls, pcall, pret, fetched, checkers, last, pre>>
     /\ CASE tr.do \in {"iter", "valid"} /\ n >= MaxDepth ->
               /\ stack' = base
               /\ rs' = [rs EXCEPT ![self] = tr.r]
               /\ mode' = "raise"
               /\ carry' = [NoCarry EXCEPT !.exc = "RecursionError"]
               /\ made' = made
          [] tr.do = "iter" /\ n < MaxDepth ->
               /\ stack' = Append(base, IterFrame(tr.r, tr.inst, tr.schema, tr.at))
               /\ rs' = [rs EXCEPT ![self] = IterEnter(tr.r, tr.schema)]
               /\ mode' = "run" /\ carry' = NoCarry /\ made' = made
          [] tr.do = "valid" /\ n < MaxDepth ->
               /\ stack' = base \o <<CallFrame("is_valid", tr.inst),
                                     IterFrame(tr.r, tr.inst, tr.schema, tr.frame.at)>>
               /\ rs' = [rs EXCEPT ![self] = IterEnter(tr.r, tr.schema)]
               /\ mode' = "run" /\ carry' = NoCarry /\ made' = made
          [] tr.do = "yield" ->
               /\ stack' = base
               /\ rs' = [rs EXCEPT ![self] = tr.r]
               /\ mode' = "yielded"
               /\ carry' = [NoCarry EXCEPT !.err = Bubble(tr.err, base, n - 1)]
               /\ made' = made + 1
          [] tr.do = "return" ->
               /\ stack' = SubSeq(stack, 1, n - 1)
               /\ rs' = [rs EXCEPT ![self] = tr.r]
               /\ mode' = "ret" /\ carry' = NoCarry /\ made' = made
          [] tr.do = "raise" ->
               /\ stack' = base
               /\ rs' = [rs EXCEPT ![self] = tr.r]
               /\ mode' = "raise" /\ carry' = [NoCarry EXCEPT !.exc = tr.exc]
               /\ made' = made
          [] tr.do = "stay" ->
               /\ stack' = base
               /\ rs' = [rs EXCEPT ![self] = tr.r]
               /\ mode' = "run" /\ carry' = NoCarry /\ made' = made

Running == mode \in {"run", "ret"} /\ Len(stack) > 0
IsRule(rule) == Running /\ Top.kind = "rule" /\ Top.rule = rule

(***************************************************************************)
(* iter_errors: the loop over the keys of the schema.                      *)
(***************************************************************************)
IterStep ==
  /\ Running /\ Top.kind = "iter"
  /\ LET n == Len(stack)
         k == IF mode = "ret" THEN Top.k + 1 ELSE Top.k
         keys == Keys(Top.schema)
     IN IF k > Len(keys)
          THEN \* the end of the loop, and of the with block
               /\ stack' = SubSeq(stack, 1, n - 1)
               /\ rs' = [rs EXCEPT ![self] = ExitScope(R, Top.old_scope)]
               /\ mode' = "ret"
               /\ UNCHANGED started
        ELSE IF LStrip(keys[k], "$") \notin Methods(Cls)
          THEN \* validator is None: continue
               /\ stack' = [stack EXCEPT ![n].k = k + 1]
               /\ mode' = "run"
               /\ UNCHANGED <<rs, started>>
        ELSE /\ stack' = Append([stack EXCEPT ![n].k = k],
                                RuleFrame(LStrip(keys[k], "$"), Top.schema.v[k][2],
                                          Top.inst, Top.schema, Top.at, R))
             /\ mode' = "run"
             /\ started' = [started EXCEPT ![self] = @ + 1]
             /\ UNCHANGED rs
  /\ carry' = NoCarry
  /\ UNCHANGED <<scen, gens, vs, self, call, out, made, ncalls, pcall, pret, fetched, checkers, last, pre>>

(***************************************************************************)
(* The keyword rules.                                                      *)
(***************************************************************************)
\* errors = validator(v, instance, _schema) and the loop over errors, one
\* step of the generator of the rule on top of the stack
Rule ==
  \/ /\ IsRule("type") /\ Cls = "Draft4Validator"
     /\ Apply(LeafStep(Top, R, Draft4_validate_type(Top.v, Top.inst, Top.schema)))
  \/ /\ IsRule("enum")
     /\ Apply(LeafStep(Top, R, validate_enum(Top.v, Top.inst, Top.schema)))
  \/ /\ IsRule("required")
     /\ Apply(LeafStep(Top, R, Draft4_validate_required(Top.v, Top.inst, Top.schema)))
  \/ /\ IsRule("minimum")
     /\ Apply(LeafStep(Top, R, validate_minimum(Top.v, Top.inst, Top.schema)))
  \/ /\ IsRule("maximum")
     /\ Apply(LeafStep(Top, R, validate_maximum(Top.v, Top.inst, Top.schema)))
  \/ /\ IsRule("minItems")
     /\ Apply(LeafStep(Top, R, validate_minItems(Top.v, Top.inst, Top.schema)))
  \/ /\ IsRule("maxItems")
     /\ Apply(LeafStep(Top, R, validate_maxItems(Top.v, Top.inst, Top.schema)))
  \/ /\ IsRule("uniqueItems")
     /\ Apply(LeafStep(Top, R, validate_uniqueItems(Top.v, Top.inst, Top.schema)))
  \/ /\ IsRule("pattern")
     /\ Apply(LeafStep(Top, R, validate_pattern(Top.v, Top.inst, Top.schema)))
  \/ /\ IsRule("format")
     /\ Apply(LeafStep(Top, R, validate_format(Top.v, Top.inst, Top.schema)))
  \/ /\ IsRule("minLength")
     /\ Apply(LeafStep(Top, R, validate_minLength(Top.v, Top.inst, Top.schema)))
  \/ /\ IsRule("maxLength")
     /\ Apply(LeafStep(Top, R, validate_maxLength(Top.v, Top.inst, Top.schema)))
  \/ /\ IsRule("minProperties")
     /\ Apply(LeafStep(Top, R,
                       Draft4_validate_minProperties(Top.v, Top.inst, Top.schema)))
  \/ /\ IsRule("maxProperties")
     /\ Apply(LeafStep(Top, R,
                       Draft4_validate_maxProperties(Top.v, Top.inst, Top.schema)))
  \/ /\ IsRule("properties") /\ Cls = "Draft4Validator"
     /\ Apply(Draft4_validate_properties(Top, R))
  \/ /\ IsRule("properties") /\ Cls = "Draft3Validator"
     /\ Apply(Draft3_validate_properties(Top, R))
  \/ /\ IsRule("items")
     /\ Apply(validate_items(Top, R))
  \/ /\ IsRule("patternProperties")
     /\ Apply(validate_patternProperties(Top, R))
  \/ /\ IsRule("additionalProperties")
     /\ \E pick \in 1..(IF Len(Top.todo) = 0 THEN 1 ELSE Len(Top.todo)) :
          Apply(validate_additionalProperties(Top, R, pick))
  \/ /\ IsRule("additionalItems")
     /\ Apply(validate_additionalItems(Top, R))
  \/ /\ IsRule("dependencies")
     /\ Apply(validate_dependencies(Top, R))
  \/ /\ IsRule("ref")
     /\ Apply(validate_ref(Top, R))
  \/ /\ IsRule("allOf")
     /\ Apply(Draft4_validate_allOf(Top, R))
  \/ /\ IsRule("extends")
     /\ Apply(Draft3_validate_extends(Top, R))
  \/ /\ IsRule("anyOf")
     /\ Apply(Draft4_validate_anyOf(Top, R, mode, carry))
  \/ /\ IsRule("oneOf")
     /\ Apply(Draft4_validate_oneOf(Top, R, mode, carry))
  \/ /\ IsRule("not")
     /\ Apply(Draft4_validate_not(Top, R, mode, carry))
  \/ /\ IsRule("type") /\ Cls = "Draft3Validator"
     /\ Apply(Draft3_validate_type(Top, R, mode, carry))
  \/ /\ IsRule("disallow")
     /\ Apply(Draft3_validate_disallow(Top, R, mode, carry))

(***************************************************************************)
(* The consumers of iter_errors.                                           *)
(***************************************************************************)
\* the consumer's reaction to an error: True when it drops the generators
\* (is_valid takes one error with next(), validate and check_schema raise
\* inside the loop), False when it asks for the next error
Drops_raising(op) == op \in {"validate", "check_schema"}

Drops(op) == op \in {"is_valid", "validate", "check_schema"}

\* an error reaches the consumer
Receive ==
  /\ mode = "yielded"
  /\ stack' = [stack EXCEPT ![Consumer].got = Append(@, carry.err)]
  /\ mode' = IF Drops(stack[Consumer].op) THEN "close" ELSE "run"
  /\ carry' = NoCarry
  /\ UNCHANGED <<scen, gens, vs, rs, self, call, out, made, started, ncalls, pcall, pret, fetched, checkers, last, pre>>

\* what leaving a frame does to the resolver: the finally clause of
\* in_scope for iter_errors, those of resolving for validate_ref
Cleanup(f, r) ==
  IF f.kind = "iter" THEN ExitScope(r, f.old_scope)
  ELSE IF f.kind = "rule" /\ f.rule = "ref" /\ f.st \in {"entered", "body"}
    THEN ExitResolving(r, f.saved)
  ELSE r

IsRefFrame(f) == f.kind = "rule" /\ f.rule = "ref"

\* the frame finalised next when the consumer drops a chain of suspended
\* generators: a generator is closed when the last reference to it goes,
\* which for the frames of iter_errors and of the rules that hold their
\* child in a local is before the child is released, the outermost first;
\* validate_ref holds its child inside the with block, and resolving exits
\* when the child is closed, the innermost first
NextClosed ==
  LET above == (Consumer + 1)..Len(stack)
      plain == {i \in above : ~IsRefFrame(stack[i])}
  IN IF plain # {} THEN Least(plain) ELSE Len(stack)

CloseStep ==
  /\ mode = "close" /\ Len(stack) > Consumer
  /\ LET p == NextClosed
     IN /\ stack' = SubSeq(stack, 1, p - 1) \o SubSeq(stack, p + 1, Len(stack))
        /\ rs' = [rs EXCEPT ![self] = Cleanup(stack[p], R)]
  /\ UNCHANGED <<scen, gens, vs, self, mode, carry, call, out, made, started, ncalls,
                 pcall, pret, fetched, checkers, last, pre>>

\* an exception leaves the frame on top of the stack
Unwind ==
  /\ mode = "raise" /\ Len(stack) > 1
  /\ stack' = SubSeq(stack, 1, Len(stack) - 1)
  /\ rs' = [rs EXCEPT ![self] = Cleanup(Top, R)]
  /\ UNCHANGED <<scen, gens, vs, self, mode, carry, call, out, made, started, ncalls,
                 pcall, pret, fetched, checkers, last, pre>>

\* the top-level call is over: the validators check_schema and validate()
\* built are gone
Done(o) ==
  /\ out' = o
  /\ stack' = <<>> /\ mode' = "idle" /\ carry' = NoCarry /\ self' = "P"
  /\ vs' = [vs EXCEPT !["M"] = NoValidator, !["T"] = NoValidator]
  /\ rs' = [rs EXCEPT !["M"] = NoResolver, !["T"] = NoResolver]
  /\ UNCHANGED <<scen, gens, call, made, started, ncalls, pcall, pret, fetched, checkers, last, pre>>

\* an exception other than the consumer's own leaves the top-level call
Propagate ==
  /\ mode = "raise" /\ Len(stack) = 1
  /\ Done([NoOut EXCEPT !.res = "raised", !.exc = carry.exc, !.cls = Cls])

\* the consumer on top of the stack has what it needs: its generators are
\* exhausted or closed
Settled(op) ==
  /\ Len(stack) > 0 /\ Top.kind = "call" /\ Top.op = op
  /\ mode \in {"ret", "close"}

\* is_valid: return error is None
Finish_is_valid ==
  /\ Settled("is_valid")
  /\ IF Len(stack) > 1
       THEN /\ stack' = SubSeq(stack, 1, Len(stack) - 1)
            /\ mode' = "ret"
            /\ carry' = [NoCarry EXCEPT !.valid = (Top.got = <<>>)]
            /\ UNCHANGED <<scen, gens, vs, rs, self, call, out, made, started, ncalls,
                           pcall, pret, fetched, checkers, last, pre>>
       ELSE Done([NoOut EXCEPT !.res = IF Top.got = <<>> THEN "True" ELSE "False",
                               !.cls = Cls])

\* validate: raise error, or fall off the end of the loop
Finish_validate ==
  /\ Settled("validate")
  /\ IF Top.got = <<>>
       THEN Done([NoOut EXCEPT !.res = "None", !.cls = Cls])
       ELSE Done([NoOut EXCEPT !.res = "raised", !.exc = "ValidationError",
                               !.errors = Top.got, !.cls = Cls])

\* a caller that takes every error of iter_errors
Finish_iter_errors ==
  /\ Settled("iter_errors")
  /\ Done([NoOut EXCEPT !.res = "list", !.errors = Top.got, !.cls = Cls])

\* check_schema: an error of the schema is raised as SchemaError
check_schema_passes(got) == FALSE

check_schema(got) == got # <<>>

\* check_schema: raise SchemaError(error.message, validator, path), or
\* return to validate(), which goes on with cls(schema).validate(instance)
Finish_check_schema ==
  /\ Settled("check_schema")
  /\ IF check_schema(Top.got)
       THEN Done([NoOut EXCEPT !.res = "raised", !.exc = "SchemaError",
                               !.errors = Top.got, !.cls = Cls])
       ELSE LET resolver == from_schema(scen.schema)
            IN /\ vs' = [vs EXCEPT !["M"] = NoValidator,
                                   !["T"] = [cls |-> Cls, schema |-> scen.schema]]
               /\ rs' = [rs EXCEPT !["M"] = NoResolver,
                                   !["T"] = IterEnter(resolver, scen.schema)]
               /\ self' = "T"
               /\ stack' = <<CallFrame("validate", call.instance),
                             IterFrame(resolver, call.instance, scen.schema, <<>>)>>
               /\ mode' = "run" /\ carry' = NoCarry
               /\ UNCHANGED <<scen, gens, call, out, made, started, ncalls, pcall, pret, fetched, checkers, last, pre>>

(***************************************************************************)
(* The top-level calls.                                                    *)
(***************************************************************************)
MayCall == mode = "idle" /\ ncalls < MaxCalls

\* a method of the caller's validator begins: the first next() of
\* iter_errors(instance) enters in_scope
Begin(op, instance) ==
  /\ call' = [op |-> op, instance |-> instance]
  /\ self' = "P"
  /\ stack' = <<CallFrame(op, instance),
                IterFrame(rs["P"], instance, vs["P"].schema, <<>>)>>
  /\ rs' = [rs EXCEPT !["P"] = IterEnter(@, vs["P"].schema)]
  /\ mode' = "run" /\ carry' = NoCarry /\ out' = NoOut
  /\ made' = 0 /\ started' = NoStarted /\ ncalls' = ncalls + 1
  /\ last' = [call |-> call, out |-> out, pre |-> pre]
  /\ pre' = Fields(rs["P"])
  /\ UNCHANGED <<scen, gens, vs, pcall, pret, fetched, checkers>>

Call_is_valid ==
  MayCall /\ \E x \in 1..Len(scen.instances) : Begin("is_valid", scen.instances[x])

Call_validate ==
  MayCall /\ \E x \in 1..Len(scen.instances) : Begin("validate", scen.instances[x])

Call_iter_errors ==
  MayCall /\ \E x \in 1..Len(scen.instances) : Begin("iter_errors", scen.instances[x])

\* validate(instance, schema): the class is looked up and its check_schema
\* starts on cls(cls.META_SCHEMA).iter_errors(schema)
Call_validate_function ==
  /\ MayCall
  /\ \E x \in 1..Len(scen.instances) :
       LET cls == SelectClass(scen.schema)
           resolver == from_schema(META_SCHEMA(cls))
       IN /\ call' = [op |-> "validate()", instance |-> scen.instances[x]]
          /\ self' = "M"
          /\ vs' = [vs EXCEPT !["M"] = [cls |-> cls, schema |-> META_SCHEMA(cls)]]
          /\ rs' = [rs EXCEPT !["M"] = IterEnter(resolver, META_SCHEMA(cls))]
          /\ stack' = <<CallFrame("check_schema", scen.schema),
                        IterFrame(resolver, scen.schema, META_SCHEMA(cls), <<>>)>>
          /\ mode' = "run" /\ carry' = NoCarry /\ out' = NoOut
          /\ made' = 0 /\ started' = NoStarted /\ ncalls' = ncalls + 1
          /\ last' = [call |-> call, out |-> out, pre |-> pre]
          /\ pre' = Fields(rs["P"])
          /\ UNCHANGED <<scen, gens, pcall, pret, fetched, checkers>>

(***************************************************************************)
(* The schemas the model runs, each with the class the caller builds its   *)
(* validator from and the instances the caller validates.                  *)
(***************************************************************************)
Scenarios ==
  << [name |-> "type", cls |-> "Draft4Validator",
     schema |->
       JDict(<<<<"type", JStr("integer")>>>>),
     instances |->
       <<JInt(1), JBool(TRUE), JStr("s"), JFloat(15)>>],
     [name |-> "properties", cls |-> "Draft4Validator",
     schema |->
       JDict(<<<<"properties", JDict(<<<<"x", JDict(<<<<"type", JStr("string")>>>>)>>>>)>>, <<"required", JList(<<JStr("x")>>)>>>>),
     instances |->
       <<JDict(<<<<"x", JStr("a")>>>>), JDict(<<<<"x", JInt(1)>>>>), JDict(<<>>)>>],
     [name |-> "required", cls |-> "Draft4Validator",
     schema |->
       JDict(<<<<"required", JList(<<JStr("a"), JStr("b")>>)>>>>),
     instances |->
       <<JDict(<<>>), JDict(<<<<"a", JInt(1)>>>>)>>],
     [name |-> "patternProperties", cls |-> "Draft4Validator",
     schema |->
       JDict(<<<<"patternProperties", JDict(<<<<"a", JDict(<<<<"type", JStr("integer")>>>>)>>>>)>>>>),
     instances |->
       <<JDict(<<<<"a", JStr("x")>>>>), JDict(<<<<"a", JInt(1)>>, <<"b", JStr("y")>>>>)>>],
     [name |-> "additionalProperties", cls |-> "Draft4Validator",
     schema |->
       JDict(<<<<"properties", JDict(<<<<"a", JDict(<<>>)>>>>)>>, <<"additionalProperties", JDict(<<<<"type", JStr("integer")>>>>)>>>>),
     instances |->
       <<JDict(<<<<"a", JStr("s")>>, <<"b", JStr("x")>>>>), JDict(<<<<"b", JInt(1)>>, <<"c", JStr("y")>>>>)>>],
     [name |-> "noAdditionalProperties", cls |-> "Draft4Validator",
     schema |->
       JDict(<<<<"properties", JDict(<<<<"a", JDict(<<>>)>>>>)>>, <<"additionalProperties", JBool(FALSE)>>>>),
     instances |->
       <<JDict(<<<<"a", JInt(1)>>, <<"b", JInt(2)>>>>), JDict(<<<<"a", JInt(1)>>>>)>>],
     [name |-> "additionalItems", cls |-> "Draft4Validator",
     schema |->
       JDict(<<<<"items", JList(<<JDict(<<<<"type", JStr("integer")>>>>)>>)>>, <<"additionalItems", JDict(<<<<"type", JStr("string")>>>>)>>>>),
     instances |->
       <<JList(<<JInt(1), JStr("a")>>), JList(<<JStr("x"), JInt(2), JInt(3)>>)>>],
     [name |-> "noAdditionalItems", cls |-> "Draft4Validator",
     schema |->
       JDict(<<<<"items", JList(<<JDict(<<>>)>>)>>, <<"additionalItems", JBool(FALSE)>>>>),
     instances |->
       <<JList(<<JInt(1), JInt(2)>>), JList(<<JInt(1)>>)>>],
     [name |-> "items", cls |-> "Draft4Validator",
     schema |->
       JDict(<<<<"items", JDict(<<<<"type", JStr("integer")>>>>)>>>>),
     instances |->
       <<JList(<<JInt(1), JStr("a"), JStr("b")>>), JInt(5)>>],
     [name |-> "nestedItems", cls |-> "Draft4Validator",
     schema |->
       JDict(<<<<"properties", JDict(<<<<"a", JDict(<<<<"items", JDict(<<<<"type", JStr("integer")>>>>)>>>>)>>>>)>>>>),
     instances |->
       <<JDict(<<<<"a", JList(<<JInt(1), JStr("s")>>)>>>>)>>],
     [name |-> "nestedId", cls |-> "Draft4Validator",
     schema |->
       JDict(<<<<"properties", JDict(<<<<"a", JDict(<<<<"id", JStr("http://x/")>>, <<"properties", JDict(<<<<"b", JDict(<<<<"type", JStr("integer")>>>>)>>>>)>>>>)>>>>)>>>>),
     instances |->
       <<JDict(<<<<"a", JDict(<<<<"b", JStr("s")>>>>)>>>>), JDict(<<<<"a", JDict(<<<<"b", JInt(1)>>>>)>>>>)>>],
     [name |-> "localRef", cls |-> "Draft4Validator",
     schema |->
       JDict(<<<<"definitions", JDict(<<<<"x", JDict(<<<<"type", JStr("integer")>>>>)>>>>)>>, <<"properties", JDict(<<<<"a", JDict(<<<<"$ref", JStr("#/definitions/x")>>>>)>>>>)>>>>),
     instances |->
       <<JDict(<<<<"a", JInt(1)>>>>), JDict(<<<<"a", JStr("s")>>>>)>>],
     [name |-> "hashId", cls |-> "Draft4Validator",
     schema |->
       JDict(<<<<"id", JStr("http://x/s#")>>, <<"definitions", JDict(<<<<"x", JDict(<<<<"type", JStr("integer")>>>>)>>>>)>>, <<"properties", JDict(<<<<"a", JDict(<<<<"$ref", JStr("#/definitions/x")>>>>)>>>>)>>>>),
     instances |->
       <<JDict(<<<<"a", JStr("s")>>>>)>>],
     [name |-> "relativeId", cls |-> "Draft4Validator",
     schema |->
       JDict(<<<<"id", JStr("foo/bar")>>, <<"definitions", JDict(<<<<"x", JDict(<<<<"type", JStr("integer")>>>>)>>>>)>>, <<"$ref", JStr("#/definitions/x")>>>>),
     instances |->
       <<JStr("s")>>],
     [name |-> "selfRef", cls |-> "Draft4Validator",
     schema |->
       JDict(<<<<"$ref", JStr("#")>>>>),
     instances |->
       <<JInt(1)>>],
     [name |-> "enclosingRef", cls |-> "Draft4Validator",
     schema |->
       JDict(<<<<"properties", JDict(<<<<"a", JDict(<<<<"$ref", JStr("#")>>>>)>>>>)>>>>),
     instances |->
       <<JDict(<<<<"a", JDict(<<<<"a", JInt(1)>>>>)>>>>)>>],
     [name |-> "idThenRef", cls |-> "Draft4Validator",
     schema |->
       JDict(<<<<"definitions", JDict(<<<<"x", JDict(<<<<"type", JStr("integer")>>>>)>>>>)>>, <<"properties", JDict(<<<<"a", JDict(<<<<"id", JStr("http://x/")>>, <<"type", JStr("integer")>>>>)>>, <<"b", JDict(<<<<"$ref", JStr("#/definitions/x")>>>>)>>>>)>>>>),
     instances |->
       <<JDict(<<<<"a", JStr("s")>>, <<"b", JStr("s")>>>>)>>],
     [name |-> "missingPointer", cls |-> "Draft4Validator",
     schema |->
       JDict(<<<<"$ref", JStr("#/definitions/nope")>>>>),
     instances |->
       <<JInt(1)>>],
     [name |-> "remoteRef", cls |-> "Draft4Validator",
     schema |->
       JDict(<<<<"$ref", JStr("http://r/int")>>>>),
     instances |->
       <<JInt(1), JStr("s")>>],
     [name |-> "remoteFragment", cls |-> "Draft4Validator",
     schema |->
       JDict(<<<<"$ref", JStr("http://r/defs#/definitions/s")>>>>),
     instances |->
       <<JStr("a"), JInt(1)>>],
     [name |-> "remoteMissingPointer", cls |-> "Draft4Validator",
     schema |->
       JDict(<<<<"$ref", JStr("http://r/int#/type/x")>>>>),
     instances |->
       <<JInt(1)>>],
     [name |-> "remoteFails", cls |-> "Draft4Validator",
     schema |->
       JDict(<<<<"$ref", JStr("http://nowhere/x")>>>>),
     instances |->
       <<JInt(1)>>],
     [name |-> "enum1", cls |-> "Draft4Validator",
     schema |->
       JDict(<<<<"enum", JList(<<JInt(1)>>)>>>>),
     instances |->
       <<JBool(TRUE), JInt(1), JInt(2)>>],
     [name |-> "enumTrue", cls |-> "Draft4Validator",
     schema |->
       JDict(<<<<"enum", JList(<<JBool(TRUE)>>)>>>>),
     instances |->
       <<JInt(1), JBool(TRUE)>>],
     [name |-> "enum0", cls |-> "Draft4Validator",
     schema |->
       JDict(<<<<"enum", JList(<<JInt(0)>>)>>>>),
     instances |->
       <<JBool(FALSE), JInt(0)>>],
     [name |-> "enumFalse", cls |-> "Draft4Validator",
     schema |->
       JDict(<<<<"enum", JList(<<JBool(FALSE)>>)>>>>),
     instances |->
       <<JInt(0), JStr("s")>>],
     [name |-> "anyOf", cls |-> "Draft4Validator",
     schema |->
       JDict(<<<<"anyOf", JList(<<JDict(<<<<"type", JStr("integer")>>>>), JDict(<<<<"type", JStr("string")>>>>)>>)>>>>),
     instances |->
       <<JInt(1), JStr("s"), JNull>>],
     [name |-> "anyOfId", cls |-> "Draft4Validator",
     schema |->
       JDict(<<<<"anyOf", JList(<<JDict(<<<<"id", JStr("http://x/")>>, <<"type", JStr("string")>>>>), JDict(<<<<"type", JStr("integer")>>>>)>>)>>, <<"not", JDict(<<<<"id", JStr("http://y/")>>, <<"type", JStr("integer")>>>>)>>>>),
     instances |->
       <<JInt(1), JNull>>],
     [name |-> "oneOf", cls |-> "Draft4Validator",
     schema |->
       JDict(<<<<"oneOf", JList(<<JDict(<<<<"type", JStr("string")>>>>), JDict(<<<<"type", JStr("integer")>>>>), JDict(<<<<"minimum", JInt(2)>>>>)>>)>>>>),
     instances |->
       <<JInt(1), JInt(3), JStr("s"), JFloat(15)>>],
     [name |-> "not", cls |-> "Draft4Validator",
     schema |->
       JDict(<<<<"not", JDict(<<<<"type", JStr("integer")>>>>)>>>>),
     instances |->
       <<JInt(1), JStr("s")>>],
     [name |-> "allOf", cls |-> "Draft4Validator",
     schema |->
       JDict(<<<<"allOf", JList(<<JDict(<<<<"type", JStr("integer")>>>>), JDict(<<<<"minimum", JInt(2)>>>>)>>)>>>>),
     instances |->
       <<JInt(1), JStr("s"), JInt(3)>>],
     [name |-> "emptyEnum", cls |-> "Draft4Validator",
     schema |->
       JDict(<<<<"enum", JList(<<>>)>>>>),
     instances |->
       <<JInt(1)>>],
     [name |-> "unknownType", cls |-> "Draft4Validator",
     schema |->
       JDict(<<<<"type", JStr("any")>>>>),
     instances |->
       <<JInt(1)>>],
     [name |-> "limitsNumber", cls |-> "Draft4Validator",
     schema |->
       JDict(<<<<"minimum", JInt(1)>>, <<"maximum", JInt(5)>>, <<"exclusiveMaximum", JBool(TRUE)>>>>),
     instances |->
       <<JInt(0), JInt(5), JInt(7), JInt(3)>>],
     [name |-> "limitsString", cls |-> "Draft4Validator",
     schema |->
       JDict(<<<<"pattern", JStr("ab")>>, <<"minLength", JInt(2)>>, <<"maxLength", JInt(3)>>, <<"format", JStr("email")>>>>),
     instances |->
       <<JStr("a"), JStr("xabx"), JStr("ab")>>],
     [name |-> "limitsArray", cls |-> "Draft4Validator",
     schema |->
       JDict(<<<<"minItems", JInt(1)>>, <<"maxItems", JInt(2)>>, <<"uniqueItems", JBool(TRUE)>>>>),
     instances |->
       <<JList(<<>>), JList(<<JInt(1), JInt(1), JInt(2)>>), JList(<<JInt(1), JBool(TRUE)>>)>>],
     [name |-> "limitsObject", cls |-> "Draft4Validator",
     schema |->
       JDict(<<<<"minProperties", JInt(1)>>, <<"maxProperties", JInt(1)>>>>),
     instances |->
       <<JDict(<<>>), JDict(<<<<"a", JInt(1)>>, <<"b", JInt(2)>>>>)>>],
     [name |-> "dependencies", cls |-> "Draft4Validator",
     schema |->
       JDict(<<<<"dependencies", JDict(<<<<"a", JList(<<JStr("b"), JStr("c")>>)>>, <<"d", JDict(<<<<"required", JList(<<JStr("e")>>)>>>>)>>>>)>>>>),
     instances |->
       <<JDict(<<<<"a", JInt(1)>>>>), JDict(<<<<"d", JInt(1)>>>>), JDict(<<<<"a", JInt(1)>>, <<"b", JInt(2)>>, <<"c", JInt(3)>>>>)>>],
     [name |-> "schema3", cls |-> "Draft3Validator",
     schema |->
       JDict(<<<<"$schema", JStr("http://json-schema.org/draft-03/schema#")>>, <<"properties", JDict(<<<<"a", JDict(<<<<"required", JBool(TRUE)>>>>)>>>>)>>>>),
     instances |->
       <<JDict(<<>>), JDict(<<<<"a", JInt(1)>>>>)>>],
     [name |-> "schema3NoHash", cls |-> "Draft3Validator",
     schema |->
       JDict(<<<<"$schema", JStr("http://json-schema.org/draft-03/schema")>>, <<"properties", JDict(<<<<"a", JDict(<<<<"required", JBool(TRUE)>>>>)>>>>)>>>>),
     instances |->
       <<JDict(<<>>), JDict(<<<<"a", JInt(1)>>>>)>>],
     [name |-> "schema4", cls |-> "Draft4Validator",
     schema |->
       JDict(<<<<"$schema", JStr("http://json-schema.org/draft-04/schema#")>>, <<"type", JStr("integer")>>>>),
     instances |->
       <<JInt(1), JStr("s")>>],
     [name |-> "schema4NoHash", cls |-> "Draft4Validator",
     schema |->
       JDict(<<<<"$schema", JStr("http://json-schema.org/draft-04/schema")>>, <<"type", JStr("integer")>>>>),
     instances |->
       <<JInt(1), JStr("s")>>],
     [name |-> "schemaUnknown", cls |-> "Draft4Validator",
     schema |->
       JDict(<<<<"$schema", JStr("http://example.com/schema#")>>, <<"type", JStr("integer")>>>>),
     instances |->
       <<JInt(1), JStr("s")>>],
     [name |-> "type3", cls |-> "Draft3Validator",
     schema |->
       JDict(<<<<"type", JList(<<JStr("string"), JDict(<<<<"type", JStr("integer")>>>>)>>)>>>>),
     instances |->
       <<JStr("s"), JInt(1), JNull>>],
     [name |-> "typeAny3", cls |-> "Draft3Validator",
     schema |->
       JDict(<<<<"type", JStr("any")>>>>),
     instances |->
       <<JInt(1)>>],
     [name |-> "disallow3", cls |-> "Draft3Validator",
     schema |->
       JDict(<<<<"disallow", JList(<<JStr("string"), JStr("null")>>)>>>>),
     instances |->
       <<JStr("s"), JInt(1)>>],
     [name |-> "extends3", cls |-> "Draft3Validator",
     schema |->
       JDict(<<<<"extends", JDict(<<<<"type", JStr("integer")>>>>)>>>>),
     instances |->
       <<JInt(1), JStr("s")>>],
     [name |-> "extendsList3", cls |-> "Draft3Validator",
     schema |->
       JDict(<<<<"extends", JList(<<JDict(<<<<"type", JStr("integer")>>>>), JDict(<<<<"minimum", JInt(2)>>>>)>>)>>>>),
     instances |->
       <<JInt(1), JStr("s")>>],
     [name |-> "dependencies3", cls |-> "Draft3Validator",
     schema |->
       JDict(<<<<"dependencies", JDict(<<<<"a", JStr("b")>>>>)>>>>),
     instances |->
       <<JDict(<<<<"a", JInt(1)>>>>), JDict(<<<<"a", JInt(1)>>, <<"b", JInt(2)>>>>)>>] >>

\* cls(schema): the validator after construction
Constructed(s) ==
  /\ scen = s
  /\ vs = [id \in {"P", "M", "T"} |->
             IF id = "P" THEN [cls |-> scen.cls, schema |-> scen.schema]
             ELSE NoValidator]
  /\ rs = [id \in {"P", "M", "T"} |->
             IF id = "P" THEN from_schema(scen.schema) ELSE NoResolver]
  /\ self = "P"
  /\ stack = <<>> /\ mode = "idle" /\ carry = NoCarry
  /\ call = NoCall /\ out = NoOut
  /\ made = 0 /\ started = NoStarted /\ ncalls = 0
  /\ pcall = NoPure /\ pret = <<>>
  /\ fetched = <<>> /\ checkers = Registries /\ gens = <<>>
  /\ pre = Fields(from_schema(scen.schema))
  /\ last = [call |-> NoCall, out |-> NoOut, pre |-> Fields(from_schema(scen.schema))]

Init == \E s \in 1..Len(Scenarios) : Constructed(Scenarios[s])

Next ==
  \/ Call_is_valid \/ Call_validate \/ Call_iter_errors \/ Call_validate_function
  \/ IterStep
  \/ Rule
  \/ Receive \/ CloseStep \/ Unwind \/ Propagate
  \/ Finish_is_valid \/ Finish_validate \/ Finish_iter_errors
  \/ Finish_check_schema

Spec == Init /\ [][Next]_vars

(***************************************************************************)
(* ErrorTree.  A tree is a record [errors, contents]: errors maps a        *)
(* validator keyword to the error stored under it and contents maps a path *)
(* element to the child tree, as the dict and the defaultdict do.          *)
(***************************************************************************)
EmptyTree == [errors |-> <<>>, contents |-> <<>>]

RECURSIVE Reverse(_)
Reverse(seq) == IF Len(seq) = 0 THEN <<>> ELSE Append(Reverse(Tail(seq)), Head(seq))

\* container = container[element] along elements, children made on first
\* access, then container.errors[error.validator] = error
RECURSIVE TreeInsert(_, _, _)
TreeInsert(tree, elements, error) ==
  IF Len(elements) = 0
    THEN [tree EXCEPT !.errors = (error.validator :> error) @@ tree.errors]
    ELSE [tree EXCEPT !.contents =
            (Head(elements) :>
               TreeInsert(IF Head(elements) \in DOMAIN tree.contents
                            THEN tree.contents[Head(elements)]
                            ELSE EmptyTree,
                          Tail(elements), error))
              @@ tree.contents]

\* ErrorTree.__init__
RECURSIVE ErrorTree(_, _)
ErrorTree(tree, errors) ==
  IF Len(errors) = 0 THEN tree
  ELSE ErrorTree(TreeInsert(tree, Reverse(Head(errors).path), Head(errors)),
                 Tail(errors))

\* ErrorTree.total_errors, the sum taken over the children in keys
RECURSIVE total_errors(_, _)
total_errors(tree, keys) ==
  IF keys = {}
    THEN Cardinality(DOMAIN tree.errors)
    ELSE total_errors(tree.contents[CHOOSE k \in keys : TRUE],
                      DOMAIN tree.contents[CHOOSE k \in keys : TRUE].contents)
           + total_errors(tree, keys \ {CHOOSE k \in keys : TRUE})

(***************************************************************************)
(* Calls of the functions without state, on inputs from small sets.        *)
(***************************************************************************)
MaxErrors == 3
MaxItems == 2

\* JSON values of every class
Values ==
  <<JNull, JBool(TRUE), JBool(FALSE), JInt(0), JInt(1), JInt(2), JFloat(5),
    JFloat(10), JStr(""), JStr("a"), JList(<<>>), JList(<<JInt(1)>>),
    JList(<<JBool(TRUE)>>), JDict(<<>>), JDict(<<<<"a", JInt(1)>>>>)>>

\* the arrays of the enum keyword
Enums ==
  <<JList(<<JInt(1)>>), JList(<<JBool(TRUE)>>), JList(<<JInt(0)>>),
    JList(<<JBool(FALSE)>>), JList(<<JFloat(10), JStr("a")>>),
    JList(<<JList(<<JInt(1)>>)>>), JList(<<JNull, JDict(<<<<"a", JBool(TRUE)>>>>)>>)>>

\* the errors a caller hands to ErrorTree
TreeErrors ==
  <<ValidationError("m", <<>>, "type", <<>>),
    ValidationError("m", <<>>, "required", <<>>),
    ValidationError("m", <<>>, "type", <<JStr("a")>>),
    ValidationError("m", <<>>, "required", <<JStr("a")>>),
    ValidationError("m", <<>>, "type", <<JInt(0), JStr("a")>>),
    ValidationError("m", <<>>, "required", <<JInt(0), JStr("a")>>)>>

PureFrame ==
  UNCHANGED <<scen, gens, vs, rs, self, stack, mode, carry, call, out, made, started,
              ncalls, last, pre, fetched, checkers>>

\* validator.is_type(instance, type)
Call_is_type ==
  /\ \E x \in 1..Len(Values), type \in TypeNames :
       /\ pcall' = [fn |-> "is_type", instance |-> Values[x], type |-> type]
       /\ pret' = is_type(Values[x], type)
  /\ PureFrame

\* the errors of validator.validate_enum(enums, instance, schema)
Call_validate_enum ==
  /\ \E x \in 1..Len(Values), e \in 1..Len(Enums) :
       /\ pcall' = [fn |-> "validate_enum", instance |-> Values[x], enums |-> Enums[e]]
       /\ pret' = validate_enum(Enums[e], Values[x],
                                JDict(<<<<"enum", Enums[e]>>>>)).errs
  /\ PureFrame

\* ErrorTree(errors), the caller adding one error more to the errors of the
\* tree built last
Call_ErrorTree ==
  /\ \E x \in 1..Len(TreeErrors) :
       LET errors == IF pcall.fn = "ErrorTree" THEN Append(pcall.errors, TreeErrors[x])
                     ELSE <<TreeErrors[x]>>
       IN /\ Len(errors) <= MaxErrors
          /\ pcall' = [fn |-> "ErrorTree", errors |-> errors]
          /\ pret' = ErrorTree(EmptyTree, errors)
  /\ PureFrame

\* the errors of validator.validate_uniqueItems(True, instance, schema), the
\* instance an array of up to MaxItems of the values
Call_validate_uniqueItems ==
  /\ \E n \in 0..MaxItems :
       \E items \in [1..n -> 1..Len(Values)] :
         /\ pcall' = [fn |-> "validate_uniqueItems",
                      instance |-> JList([i \in 1..n |-> Values[items[i]]])]
         /\ pret' = validate_uniqueItems(JBool(TRUE),
                                         JList([i \in 1..n |-> Values[items[i]]]),
                                         JDict(<<<<"uniqueItems", JBool(TRUE)>>>>)).errs
  /\ PureFrame

\* resolver.resolve_fragment(document, fragment)
Call_resolve_fragment ==
  /\ \E document \in
         {JDict(<<<<"a/b", JDict(<<<<"c~d", JInt(1)>>>>)>>>>),
          JDict(<<<<"~1", JInt(1)>>, <<"/", JInt(2)>>, <<"~", JInt(3)>>,
                  <<"~0", JInt(4)>>>>),
          JDict(<<<<"a", JDict(<<<<"~/", JInt(1)>>, <<"b", JInt(2)>>>>)>>>>),
          JDict(<<<<"items", JList(<<JDict(<<<<"type", JStr("integer")>>>>),
                                     JStr("x")>>)>>>>)},
        fragment \in
         {"", "/a~1b/c~0d", "/a~1b", "/~01", "/~1", "/~0", "/~00", "/a/~0~1",
          "/a/b", "/a/c", "/items", "/items/0", "/items/1", "/items/2",
          "/items/x", "/items/0/type"} :
       /\ pcall' = [fn |-> "resolve_fragment", document |-> document,
                    fragment |-> fragment]
       /\ pret' = resolve_fragment(document, fragment)
  /\ PureFrame

InitPure == Constructed(Scenarios[1])

NextPure ==
  \/ Call_is_type
  \/ Call_validate_enum
  \/ Call_ErrorTree
  \/ Call_validate_uniqueItems
  \/ Call_resolve_fragment

SpecPure == InitPure /\ [][NextPure]_vars

(***************************************************************************)
(* A RefResolver the caller builds and drives: with blocks over            *)
(* resolving(ref), nested up to MaxNest deep and holding on the stack what *)
(* their finally clauses restore, and calls of resolve_remote(uri).        *)
(***************************************************************************)
MaxNest == 2
MaxFetches == 2

\* RefResolver("http://x/s", referrer, store, cache_remote=...), the store
\* empty, or naming another document for the URI of a meta-schema, or
\* holding a document of the network already
InitResolver ==
  \E cache_remote \in BOOLEAN,
     store \in {<<>>,
                "http://json-schema.org/draft-04/schema" :>
                  JDict(<<<<"type", JStr("string")>>>>),
                "http://r/int" :> JDict(<<>>)} :
    /\ scen = Scenarios[1]
    /\ vs = [id \in {"P", "M", "T"} |-> NoValidator]
    /\ rs = [id \in {"P", "M", "T"} |->
               IF id = "P"
                 THEN RefResolver("http://x/s",
                                  JDict(<<<<"definitions",
                                            JDict(<<<<"x", JDict(<<<<"type", JStr("integer")>>>>)>>>>)>>>>),
                                  store, cache_remote)
                 ELSE NoResolver]
    /\ self = "P"
    /\ stack = <<>> /\ mode = "idle" /\ carry = NoCarry
    /\ call = NoCall /\ out = NoOut
    /\ made = 0 /\ started = NoStarted /\ ncalls = 0
    /\ pcall = NoPure /\ pret = <<>>
    /\ fetched = <<>> /\ checkers = Registries /\ gens = <<>>
    /\ pre = Fields(rs["P"])
    /\ last = [call |-> NoCall, out |-> NoOut, pre |-> Fields(rs["P"])]

\* `with resolver.resolving(ref) as resolved:` entered.  When the fetch
\* fails nothing has been assigned; when resolve_fragment raises, the
\* finally clauses run at once; else the block is open.
Enter_resolving ==
  /\ Len(stack) < MaxNest /\ Len(fetched) < MaxFetches
  /\ \E ref \in {"#/definitions/x", "#/nope", "http://x/s", "http://r/int",
                  "http://r/defs#/definitions/s", "http://nowhere/x",
                  "http://json-schema.org/draft-04/schema#"} :
       \E e \in {EnterResolving(R, ref)} :
         /\ pcall' = [fn |-> "resolving", ref |-> ref]
         /\ fetched' = fetched \o [i \in 1..Len(e.asked) |->
                                     [uri |-> e.asked[i].uri, ok |-> e.asked[i].ok,
                                      by |-> "resolving"]]
         /\ IF ~e.ok
              THEN /\ rs' = [rs EXCEPT ![self] = e.r]
                   /\ stack' = stack
                   /\ pret' = [ok |-> FALSE, exc |-> e.exc, uri |-> e.uri]
              ELSE \E resolved \in {resolve_fragment(e.document, e.fragment)} :
                     IF ~resolved.ok
                       THEN /\ rs' = [rs EXCEPT ![self] = ExitResolving(e.r, e.saved)]
                            /\ stack' = stack
                            /\ pret' = [ok |-> FALSE, exc |-> resolved.exc,
                                        uri |-> e.uri, document |-> e.document]
                       ELSE /\ rs' = [rs EXCEPT ![self] = e.r]
                            /\ stack' = Append(stack, [kind |-> "with", saved |-> e.saved])
                            /\ pret' = [ok |-> TRUE, val |-> resolved.val,
                                        uri |-> e.uri, document |-> e.document]
  /\ UNCHANGED <<scen, gens, vs, self, mode, carry, call, out, made, started, ncalls,
                 last, pre, checkers>>

\* the innermost open with block left
Exit_resolving ==
  /\ Len(stack) > 0
  /\ rs' = [rs EXCEPT ![self] = ExitResolving(R, Top.saved)]
  /\ stack' = SubSeq(stack, 1, Len(stack) - 1)
  /\ pcall' = [fn |-> "exit"] /\ pret' = <<>>
  /\ UNCHANGED <<scen, gens, vs, self, mode, carry, call, out, made, started, ncalls,
                 last, pre, fetched, checkers>>

\* resolver.resolve_remote(uri), called by the caller
Call_resolve_remote ==
  /\ Len(fetched) < MaxFetches
  /\ \E uri \in {"http://r/int", "http://nowhere/x",
                  "http://json-schema.org/draft-04/schema"} :
       \E got \in {resolve_remote(R, uri)} :
         /\ pcall' = [fn |-> "resolve_remote", uri |-> uri]
         /\ rs' = [rs EXCEPT ![self] = got.r]
         /\ fetched' = Append(fetched, [uri |-> uri, ok |-> got.ok, by |-> "caller"])
         /\ pret' = IF got.ok THEN Ok(got.val) ELSE Raise(got.exc)
  /\ UNCHANGED <<scen, gens, vs, self, stack, mode, carry, call, out, made, started,
                 ncalls, last, pre, checkers>>

NextResolver == Enter_resolving \/ Exit_resolving \/ Call_resolve_remote

SpecResolver == InitResolver /\ [][NextResolver]_vars

(***************************************************************************)
(* The format registries: instances constructed, functions registered on   *)
(* the class or on an instance, and conforms asked of an instance.         *)
(***************************************************************************)
MaxChecks == 2

InitFormats == Constructed(Scenarios[1])

\* own = FormatChecker(formats): a copy of the registry of the class, or
\* its entries for the names in formats, a name the class lacks raising
\* KeyError before own is bound
Call_FormatChecker ==
  /\ \E formats \in {JNull, JList(<<>>), JList(<<JStr("email")>>),
                      JList(<<JStr("email"), JStr("x")>>)} :
       /\ pcall' = [fn |-> "FormatChecker", formats |-> formats]
       /\ IF formats = JNull
            THEN /\ checkers' = ("own" :> checkers.cls) @@ checkers
                 /\ pret' = Ok(JNull)
          ELSE IF \A i \in 1..PyLen(formats) : formats.v[i].v \in DOMAIN checkers.cls
            THEN /\ checkers' =
                      ("own" :> [k \in {formats.v[i].v : i \in 1..PyLen(formats)} |->
                                  checkers.cls[k]]) @@ checkers
                 /\ pret' = Ok(JNull)
          ELSE /\ checkers' = checkers
               /\ pret' = Raise("KeyError")
  /\ UNCHANGED <<scen, gens, vs, rs, self, stack, mode, carry, call, out, made, started,
                 ncalls, last, pre, fetched>>

\* on.checks(format)(func), and FormatChecker.cls_checks(format)(func)
\* when on is the class
Call_checks ==
  /\ ncalls < MaxChecks
  /\ \E on \in DOMAIN checkers, format \in {"email", "x"},
        func \in {"is_empty", "never"} :
       /\ pcall' = [fn |-> "checks", on |-> on, format |-> format, func |-> func]
       /\ checkers' = [checkers EXCEPT ![on] = (format :> func) @@ @]
  /\ pret' = <<>>
  /\ ncalls' = ncalls + 1
  /\ UNCHANGED <<scen, gens, vs, rs, self, stack, mode, carry, call, out, made, started,
                 last, pre, fetched>>

\* on.conforms(instance, format), asked of an instance
Call_conforms ==
  /\ \E on \in DOMAIN checkers \ {"cls"}, instance \in {"", "ab", "a@b"},
        format \in {"email", "x", "ipv4", "date"} :
       /\ format \in DOMAIN checkers[on]
            => checkers[on][format] \in {"is_email", "is_empty", "never"}
       /\ pcall' = [fn |-> "conforms", on |-> on, instance |-> instance,
                    format |-> format]
       /\ pret' = conforms(checkers[on], instance, format)
  /\ UNCHANGED <<scen, gens, vs, rs, self, stack, mode, carry, call, out, made, started,
                 ncalls, last, pre, fetched, checkers>>

NextFormats == Call_FormatChecker \/ Call_checks \/ Call_conforms

SpecFormats == InitFormats /\ [][NextFormats]_vars

(***************************************************************************)
(* Generators consumed lazily: the caller holds several generators of      *)
(* iter_errors over the one validator and calls next() on them in any      *)
(* order.  One generator runs at a time; the others keep their frames.     *)
(***************************************************************************)
MaxGens == 2

\* g = validator.iter_errors(instance): the generator object, none of its
\* code run yet
Lazy_iter_errors ==
  /\ mode = "idle" /\ Len(gens) < MaxGens
  /\ \E x \in 1..Len(scen.instances) :
       gens' = Append(gens, [st |-> "new", inst |-> scen.instances[x],
                             stack |-> <<>>, got |-> <<>>, exc |-> "none"])
  /\ UNCHANGED <<scen, vs, rs, self, stack, mode, carry, call, out, made, started,
                 ncalls, pcall, pret, fetched, checkers, last, pre>>

\* next(g): a new generator enters in_scope of the schema, a suspended one
\* goes on after its yield with the resolver as it is now
Next_resume ==
  /\ mode = "idle"
  /\ \E g \in 1..Len(gens) :
       /\ gens[g].st \in {"new", "suspended"}
       /\ gens' = [gens EXCEPT ![g].st = "running", ![g].stack = <<>>]
       /\ IF gens[g].st = "new"
            THEN /\ stack' = <<CallFrame("iter_errors", gens[g].inst),
                               IterFrame(rs["P"], gens[g].inst, vs["P"].schema, <<>>)>>
                 /\ rs' = [rs EXCEPT !["P"] = IterEnter(@, vs["P"].schema)]
            ELSE /\ stack' = gens[g].stack
                 /\ rs' = rs
  /\ mode' = "run" /\ carry' = NoCarry
  /\ UNCHANGED <<scen, vs, self, call, out, made, started, ncalls, pcall, pret,
                 fetched, checkers, last, pre>>

\* next(g) returns to the caller: with the error the generator yielded,
\* the generator staying suspended inside every with block it has entered;
\* with StopIteration, the generator exhausted; or with the exception that
\* left the generator
Next_return ==
  /\ \E g \in 1..Len(gens) :
       /\ gens[g].st = "running"
       /\ \/ /\ mode = "yielded" /\ Consumer = 1
             /\ gens' = [gens EXCEPT
                          ![g].st = "suspended",
                          ![g].stack = [stack EXCEPT ![1].got = Append(@, carry.err)],
                          ![g].got = Append(stack[1].got, carry.err)]
          \/ /\ mode = "ret" /\ Len(stack) = 1
             /\ gens' = [gens EXCEPT ![g].st = "done", ![g].got = stack[1].got]
          \/ /\ mode = "raise" /\ Len(stack) = 1
             /\ gens' = [gens EXCEPT ![g].st = "done", ![g].got = stack[1].got,
                                     ![g].exc = carry.exc]
  /\ stack' = <<>> /\ mode' = "idle" /\ carry' = NoCarry
  /\ UNCHANGED <<scen, vs, rs, self, call, out, made, started, ncalls, pcall, pret,
                 fetched, checkers, last, pre>>

NextLazy ==
  \/ Lazy_iter_errors \/ Next_resume \/ Next_return
  \/ IterStep
  \/ Rule
  \/ Receive \/ CloseStep \/ Unwind
  \/ Finish_is_valid

SpecLazy == Init /\ [][NextLazy]_vars

(***************************************************************************)
(* Properties.                                                             *)
(***************************************************************************)
\* the call returned rather than raised
Returned(o) == o.res \in {"True", "False", "None", "list"}

\* the call before this one and this one are op1 and op2 on the same
\* instance, begun with the same base_uri, referrer and resolution_scope
Paired(op1, op2) ==
  /\ mode = "idle"
  /\ last.call.op = op1 /\ call.op = op2
  /\ last.call.instance = call.instance
  /\ last.pre = pre

\* the consumer pulling the generators is an is_valid that has its error
ShortCircuited ==
  /\ Len(stack) > 0
  /\ stack[Consumer].op = "is_valid"
  /\ stack[Consumer].got # <<>>

\* the frame at position i leaves the stack in this step
Leaves(i) ==
  stack' = SubSeq(stack, 1, i - 1) \o SubSeq(stack, i + 1, Len(stack))

\* the class of a JSON value
JsonClass(x) ==
  CASE x.t = "NoneType" -> "null"
    [] x.t = "bool" -> "boolean"
    [] x.t = "int" -> "integer"
    [] x.t = "float" -> "number"
    [] x.t = "str" -> "string"
    [] x.t = "list" -> "array"
    [] x.t = "dict" -> "object"

\* deep equality in which a boolean never equals a number
RECURSIVE DeepEqual(_, _)
DeepEqual(a, b) ==
  IF a.t = "bool" \/ b.t = "bool" THEN a.t = b.t /\ a.v = b.v
  ELSE IF IsNum(a) /\ IsNum(b) THEN Tenths(a) = Tenths(b)
  ELSE IF a.t # b.t THEN FALSE
  ELSE IF a.t = "list"
    THEN /\ Len(a.v) = Len(b.v)
         /\ \A i \in 1..Len(a.v) : DeepEqual(a.v[i], b.v[i])
  ELSE IF a.t = "dict"
    THEN /\ KeySet(a) = KeySet(b)
         /\ \A k \in KeySet(a) : DeepEqual(Get(a, k), Get(b, k))
  ELSE a.v = b.v

\* the class the `$schema` of a schema names when the URIs are compared
\* without their fragments, Draft4Validator when it names none
ClassNamed(schema) ==
  LET declared == GetOr(schema, "$schema", JNull)
      named == {id \in DOMAIN meta_schemas :
                  /\ declared.t = "str"
                  /\ urldefrag(id)[1] = urldefrag(declared.v)[1]}
  IN IF named = {} THEN "Draft4Validator"
     ELSE meta_schemas[CHOOSE id \in named : TRUE]

\* C1: validate(instance, schema) checks the schema against the META_SCHEMA
\* of the selected class before any rule is applied to the instance.  A
\* SchemaError ends the call with rules run for the schema and none for the
\* instance; the validator for the instance is built only when check_schema
\* has exhausted the errors of the schema and found none; and then the call
\* raises as ValidationError the first error iter_errors yields for the
\* instance under that schema, and returns None if it yields none.
C1_SchemaCheckedFirst ==
  /\ [](call.op = "validate()" /\ out.exc = "SchemaError"
          => started["M"] > 0 /\ started["T"] = 0)
  /\ [][self = "M" /\ self' = "T"
          => Settled("check_schema") /\ mode = "ret" /\ Top.got = <<>>]_vars
  /\ []((/\ Paired("iter_errors", "validate()")
          /\ scen.cls = out.cls
          /\ last.pre = Fields(from_schema(scen.schema))
          /\ last.out.res = "list"
          /\ out.exc # "SchemaError")
           => IF last.out.errors = <<>>
                THEN out.res = "None"
                ELSE /\ out.exc = "ValidationError"
                     /\ out.errors = <<last.out.errors[1]>>)

\* validate() raised SchemaError for a schema its META_SCHEMA rejects
C1_SchemaErrorRaised ==
  /\ mode = "idle" /\ call.op = "validate()"
  /\ out.exc = "SchemaError" /\ Len(out.errors) = 1
  /\ started["M"] > 0 /\ started["T"] = 0

\* C2: is_valid(instance) returns True exactly when iter_errors(instance)
\* yields no error, and once is_valid has the first error no further rule is
\* called and no further error is made before it returns.
C2_IsValidShortCircuits ==
  /\ []((/\ \/ Paired("iter_errors", "is_valid")
             \/ Paired("is_valid", "iter_errors")
          /\ Returned(out) /\ Returned(last.out))
           => IF call.op = "is_valid"
                THEN (out.res = "True") <=> (last.out.errors = <<>>)
                ELSE (last.out.res = "True") <=> (out.errors = <<>>))
  /\ [][ShortCircuited => made' = made /\ started' = started]_vars

\* is_valid has dropped the generators after the first error while a key of
\* the root schema is still to be looked at
C2_DroppedEarly ==
  /\ mode = "close" /\ call.op = "is_valid"
  /\ Len(stack) >= 2 /\ stack[1].got # <<>>
  /\ stack[2].kind = "iter"
  /\ stack[2].k < Len(Keys(stack[2].schema))

\* C3: whenever validate_ref leaves resolving(ref), by the end of the body,
\* by an exception of the body or of resolve_fragment, by the generator
\* being closed, or by the fetch of the document failing before anything
\* was assigned, the resolver's base_uri, referrer and resolution_scope are
\* those it had when resolving(ref) was entered.
C3_ResolvingRestores ==
  [][\A i \in DOMAIN stack :
       IsRefFrame(stack[i]) /\ Leaves(i) => Fields(rs'[self]) = stack[i].entry]_vars

\* resolving(ref) has fetched http://r/defs, made it the base_uri for the
\* body and has just been left by the end of the body
C3_ResolvingLeft ==
  /\ mode = "ret" /\ Len(stack) > 0 /\ Top.kind = "iter"
  /\ Top.k <= Len(Keys(Top.schema)) /\ Keys(Top.schema)[Top.k] = "$ref"
  /\ "http://r/defs" \in DOMAIN R.store
  /\ R.base_uri # "http://r/defs"

\* C4: when a top-level is_valid, validate or iter_errors call is over, the
\* resolver's base_uri, referrer and resolution_scope are those it had
\* before the call.
C4_ResolverUnchangedByCall ==
  mode = "idle" /\ call.op \in {"is_valid", "validate", "iter_errors"}
    => Fields(rs["P"]) = pre

\* C5: is_type(instance, type) holds exactly when type is the class of the
\* instance among null, boolean, integer, number, string, array and object,
\* or the instance is an integer and type is number; so a boolean is
\* neither an integer nor a number.
C5_IsTypeClassifies ==
  pcall.fn = "is_type"
    => (pret <=> \/ pcall.type = JsonClass(pcall.instance)
                 \/ JsonClass(pcall.instance) = "integer" /\ pcall.type = "number")

\* is_type(True, "integer") returned False
C5_BoolIsNoInteger ==
  /\ pcall.fn = "is_type"
  /\ pcall.instance = JBool(TRUE) /\ pcall.type = "integer"
  /\ pret = FALSE

\* C6: the path of every error iter_errors yields lists, the innermost
\* first, one segment for each key or index the rules descended through
\* from the root instance to the place of the error.
C6_PathIsDescent ==
  mode = "idle" /\ out.res = "list"
    => \A i \in 1..Len(out.errors) :
         Reverse(out.errors[i].path) = out.errors[i].at

\* C7: the total_errors of the ErrorTree built from a sequence of errors is
\* the length of the sequence.
C7_TreeCountsErrors ==
  pcall.fn = "ErrorTree"
    => total_errors(pret, DOMAIN pret.contents) = Len(pcall.errors)

\* C8: the exception that ends the run when resolving(ref) cannot produce
\* the referenced schema, the fetch of the document or the walk of the
\* pointer having failed, is RefResolutionError.
C8_UnresolvedRefRaises ==
  mode = "raise" /\ IsRefFrame(Top) /\ Top.st \in {"new", "entered"}
    => carry.exc = "RefResolutionError"

\* C9: the class validate(instance, schema) uses is the one whose
\* META_SCHEMA id is the `$schema` of the schema, the two compared without
\* their fragments, and Draft4Validator when there is none.
C9_ClassBySchemaUri ==
  mode = "idle" /\ call.op = "validate()" => out.cls = ClassNamed(scen.schema)

\* C10: validate_enum yields no error exactly when the instance is deeply
\* equal to an element of enums, a boolean never being equal to a number.
C10_EnumDeepEquality ==
  pcall.fn = "validate_enum"
    => (pret = <<>> <=>
          \E i \in 1..Len(pcall.enums.v) : DeepEqual(pcall.instance, pcall.enums.v[i]))

\* C11: with uniqueItems true the rule yields an error exactly when two
\* elements at different positions of the array are deeply equal, a boolean
\* never being equal to a number, at any depth.
C11_UniqueItemsDeepEquality ==
  pcall.fn = "validate_uniqueItems"
    => (pret # <<>> <=>
          \E i, j \in 1..Len(pcall.instance.v) :
            i < j /\ DeepEqual(pcall.instance.v[i], pcall.instance.v[j]))

\* the instance is valid under a schema made of type and minimum keywords
ValidUnder(instance, schema) ==
  \A k \in KeySet(schema) :
    /\ k = "type" => Draft4_validate_type(Get(schema, k), instance, schema).errs = <<>>
    /\ k = "minimum" => validate_minimum(Get(schema, k), instance, schema).errs = <<>>

\* the subschemas of the list the instance is valid under
Passing(instance, subschemas) ==
  SelectSeq(subschemas, LAMBDA s : ValidUnder(instance, s))

\* the elements of a sequence, as a set
Range(seq) == {seq[i] : i \in 1..Len(seq)}

\* C12: for a schema that is a oneOf alone, iter_errors yields nothing
\* exactly when the instance is valid under exactly one subschema of the
\* list; when it is valid under none it yields one error, about no
\* subschema; and when it is valid under two or more it yields one error
\* that lists each of them once, wherever they stand in the list.
C12_OneOfExactlyOne ==
  (/\ mode = "idle" /\ call.op = "iter_errors" /\ out.res = "list"
   /\ Keys(scen.schema) = <<"oneOf">>)
    => LET passing == Passing(call.instance, Get(scen.schema, "oneOf").v)
       IN IF Len(passing) = 1 THEN out.errors = <<>>
          ELSE /\ Len(out.errors) = 1
               /\ out.errors[1].validator = "oneOf"
               /\ IF Len(passing) = 0
                    THEN out.errors[1].args = <<call.instance>>
                    ELSE /\ out.errors[1].args[1] = call.instance
                         /\ Len(out.errors[1].args[2].v) = Len(passing)
                         /\ Range(out.errors[1].args[2].v) = Range(passing)

\* iter_errors has yielded the one error of a oneOf whose first subschema
\* and last subschema pass and whose middle one does not
C12_FirstAndLastPass ==
  /\ mode = "idle" /\ call.op = "iter_errors" /\ out.res = "list"
  /\ Keys(scen.schema) = <<"oneOf">>
  /\ Len(out.errors) = 1
  /\ LET subschemas == Get(scen.schema, "oneOf").v
     IN /\ Len(subschemas) = 3
        /\ ValidUnder(call.instance, subschemas[1])
        /\ ~ValidUnder(call.instance, subschemas[2])
        /\ ValidUnder(call.instance, subschemas[3])

\* C13: for a schema whose items is an array and whose additionalItems is
\* a schema, and an instance that is an array, the elements iter_errors
\* reports from position len(items) on are exactly those there that are not
\* valid under additionalItems: each element beyond items is checked.
C13_AdditionalItemsBeyondItems ==
  (/\ mode = "idle" /\ call.op = "iter_errors" /\ out.res = "list"
   /\ is_type(call.instance, "array")
   /\ is_type(GetOr(scen.schema, "items", JNull), "array")
   /\ is_type(GetOr(scen.schema, "additionalItems", JNull), "object"))
    => LET nitems == PyLen(Get(scen.schema, "items"))
           aI == Get(scen.schema, "additionalItems")
       IN {out.errors[e].at : e \in {d \in 1..Len(out.errors) :
                                       /\ out.errors[d].at # <<>>
                                       /\ out.errors[d].at[1].v >= nitems}}
            = {<<JInt(i - 1)>> : i \in {j \in (nitems + 1)..PyLen(call.instance) :
                                          ~ValidUnder(call.instance.v[j], aI)}}

\* a key as a segment of a JSON pointer: ~ written ~0, then / written ~1
Escape(key) == StrReplace(StrReplace(key, "~", "~0"), "/", "~1")

\* the JSON pointer of a sequence of keys
RECURSIVE Pointer(_)
Pointer(keys) ==
  IF Len(keys) = 0 THEN "" ELSE "/" \o Escape(Head(keys)) \o Pointer(Tail(keys))

\* C14: resolve_fragment undoes the escaping of JSON pointers: in a
\* document of nested objects, the pointer of a sequence of keys resolves to
\* the value stored under those keys, the segment ~01 being the key ~1.
C14_PointerEscapingInverted ==
  (pcall.fn = "resolve_fragment" /\ pcall.document.t = "dict")
    => \A k1 \in KeySet(pcall.document) :
         /\ pcall.fragment = Pointer(<<k1>>) => pret = Ok(Get(pcall.document, k1))
         /\ Get(pcall.document, k1).t = "dict"
              => \A k2 \in KeySet(Get(pcall.document, k1)) :
                   pcall.fragment = Pointer(<<k1, k2>>)
                     => pret = Ok(Get(Get(pcall.document, k1), k2))

\* the fragment /~01 has been resolved, in a document that has the keys ~1
\* and /, to the value under ~1
C14_TildeOneKey ==
  /\ pcall.fn = "resolve_fragment" /\ pcall.fragment = "/~01"
  /\ pcall.document.t = "dict"
  /\ HasKey(pcall.document, "~1") /\ HasKey(pcall.document, "/")
  /\ pret = Ok(Get(pcall.document, "~1"))

\* the decimal form of a small index
Decimal(i) == <<"0", "1", "2", "3">>[i + 1]

\* C15: resolve_fragment descends into arrays: under the key of an array
\* the segment that is the decimal form of an index within its length
\* resolves to the element at that index.
C15_PointerIndexesArrays ==
  (pcall.fn = "resolve_fragment" /\ pcall.document.t = "dict")
    => \A k \in KeySet(pcall.document) :
         Get(pcall.document, k).t = "list"
           => \A i \in 0..(PyLen(Get(pcall.document, k)) - 1) :
                pcall.fragment = Pointer(<<k>>) \o "/" \o Decimal(i)
                  => pret = Ok(Get(pcall.document, k).v[i + 1])

\* C16: the store of a resolver maps the URI of each registered
\* meta-schema, without its fragment, to that meta-schema, whatever store
\* the caller gave and whatever has been resolved or fetched since.
C16_StoreKeepsMetaSchemas ==
  \A uri \in DOMAIN _meta_schemas :
    uri \in DOMAIN rs["P"].store /\ rs["P"].store[uri] = _meta_schemas[uri]

\* C18: resolving(ref) takes the document of uri from the store if it is
\* there, else takes the referrer if uri is empty or the base_uri, else asks
\* the network, once; the store gains uri with the document fetched exactly
\* when one was fetched and cache_remote is true, and is otherwise left as
\* it was.  So with cache_remote true resolving fetches no URI twice, and
\* with cache_remote false resolving never changes the store.
C18_ResolvingFetchesAndCaches ==
  /\ [][pcall'.fn = "resolving"
          => LET r == rs["P"]
                 uri == pret'.uri
                 stored == uri \in DOMAIN r.store
                 local == uri = "" \/ uri = r.base_uri
                 new == SubSeq(fetched', Len(fetched) + 1, Len(fetched'))
             IN /\ stored => new = <<>> /\ pret'.document = r.store[uri]
                /\ ~stored /\ local => new = <<>> /\ pret'.document = r.referrer
                /\ ~stored /\ ~local
                     => /\ Len(new) = 1 /\ new[1].uri = uri /\ new[1].by = "resolving"
                        /\ new[1].ok => pret'.document = Web[uri]
                        /\ ~new[1].ok => ~pret'.ok
                /\ rs'["P"].store =
                     IF ~stored /\ ~local /\ new[1].ok /\ r.cache_remote
                       THEN (uri :> Web[uri]) @@ r.store
                       ELSE r.store]_vars
  /\ [](rs["P"].cache_remote
          => \A i, j \in 1..Len(fetched) :
               (/\ i < j /\ fetched[i].uri = fetched[j].uri
                /\ fetched[i].by = "resolving" /\ fetched[j].by = "resolving")
                 => ~(fetched[i].ok /\ fetched[j].ok))
  /\ [][pcall'.fn \in {"resolving", "exit"} /\ ~rs["P"].cache_remote
          => rs'["P"].store = rs["P"].store]_vars

\* with cache_remote true, a URI has been resolved inside its own
\* resolution: fetched by the outer resolving, from the store by the inner
C18_ServedFromStore ==
  /\ rs["P"].cache_remote
  /\ pcall.fn = "resolving" /\ pret.ok /\ pret.uri = "http://r/int"
  /\ Len(stack) = 2 /\ stack[2].saved.old_base_uri = "http://r/int"
  /\ fetched = <<[uri |-> "http://r/int", ok |-> TRUE, by |-> "resolving"]>>

\* C17: conforms accepts every instance for a format that is not in the
\* registry of the instance asked; and when a function is registered for
\* a format on one registry, conforms on that registry is then the
\* function's answer for that format, and what conforms answers on every
\* other registry, for every instance and format, is what it was.
C17_RegistriesIsolated ==
  /\ [](pcall.fn = "conforms" /\ pcall.format \notin DOMAIN checkers[pcall.on]
          => pret = TRUE)
  /\ [][pcall'.fn = "checks" /\ ncalls' = ncalls + 1
          => /\ \A instance \in {"", "ab", "a@b"} :
                  conforms(checkers'[pcall'.on], instance, pcall'.format)
                    = Predicate(pcall'.func, instance)
             /\ \A other \in DOMAIN checkers \ {pcall'.on, "cls"} :
                  \A instance \in {"", "ab", "a@b"}, format \in {"email", "x"} :
                    conforms(checkers'[other], instance, format)
                      = conforms(checkers[other], instance, format)]_vars

\* draft3_format_checker has a function registered for x that accepts
\* nothing, and draft4_format_checker, asked about x, has accepted
C17_OtherRegistryUnchanged ==
  /\ "x" \in DOMAIN checkers.draft3 /\ checkers.draft3["x"] = "never"
  /\ "x" \notin DOMAIN checkers.draft4
  /\ pcall = [fn |-> "conforms", on |-> "draft4", instance |-> "ab", format |-> "x"]
  /\ pret = TRUE

\* C19: with the resolver the validator builds from its schema, a `$ref`
\* that is only a fragment is resolved in the schema of the validator:
\* looking for the document does not fail, and the document the pointer is
\* then walked in is that schema, whatever its top-level id is.
C19_FragmentRefInDocument ==
  (Len(stack) > 0 /\ IsRefFrame(Top) /\ CharAt(Top.v.v, 1) = "#")
    => /\ ~(mode = "raise" /\ Top.st = "new")
       /\ Top.st = "entered" => Top.todo[1] = vs[self].schema

\* C20: with a schema whose `$ref`s all resolve inside the schema document,
\* references to the root and to an enclosing sub-schema among them, the
\* evaluation of an instance comes to its end by itself: it is never the
\* interpreter's recursion limit that ends it.
C20_EvaluationEnds ==
  scen.name \in {"localRef", "selfRef", "enclosingRef"}
    => ~(mode = "raise" /\ carry.exc = "RecursionError")

\* C21: when the generators of iter_errors a caller holds over one
\* validator have all been exhausted, in whatever order the caller took
\* their errors, base_uri, referrer and resolution_scope of the resolver
\* are what they were before the first of them was started; and each has
\* yielded what it yields when it is consumed alone, so that two of them
\* over the same instance have yielded the same errors and ended alike.
C21_InterleavedGeneratorsRestore ==
  (Len(gens) = MaxGens /\ \A g \in 1..Len(gens) : gens[g].st = "done")
    => /\ (\A g \in 1..Len(gens) : gens[g].exc = "none")
            => Fields(rs["P"]) = pre
       /\ \A g, h \in 1..Len(gens) :
            gens[g].inst = gens[h].inst
              => /\ gens[g].exc = gens[h].exc
                 /\ [i \in 1..Len(gens[g].got) |->
                       <<gens[g].got[i].validator, gens[g].got[i].path>>]
                    = [i \in 1..Len(gens[h].got) |->
                       <<gens[h].got[i].validator, gens[h].got[i].path>>]

=============================================================================
